---- MODULE Spec2Model ----
(***************************************************************************)
(* Verification model of the accounting computation core of                *)
(* react-accounting-app: the journal / opening-balance stores, the trial   *)
(* balance, the financial statements, the cash-flow statement, the         *)
(* year-end closing and the fixed-asset depreciation schedule.             *)
(*                                                                         *)
(* Amounts are integers (currency units).  Dates 'YYYY-MM-DD' are compared *)
(* as strings by the code, which is chronological order; the ledger part   *)
(* models a date as a positive integer and the empty string (no filter)    *)
(* as 0.  Account names are written in ASCII; the Japanese name of the     *)
(* source stands next to each.                                             *)
(*                                                                         *)
(* The depreciation part models a date by its month, 12 * year + month:    *)
(* the fiscal year starts on the first day of a month, so that the day of  *)
(* an acquisition or disposal date decides no comparison of the code, and  *)
(* the time zone is one at or east of UTC, where the local month of a      *)
(* parsed date is the month written in it.  The rates are integers: the    *)
(* depreciation and revised rates in 1/1000, the guarantee rate in         *)
(* 1/100000; Math.round(x) is the floor of x + 1/2.                        *)
(***************************************************************************)
EXTENDS Integers, Sequences, FiniteSets, TLC

(***************************************************************************)
(* Bounds of the model.                                                    *)
(***************************************************************************)
MaxEntries == 2
MaxAmount == 2
MaxDate == 2
MaxOpening == 1
MaxCost == 6
MaxTaxAmount == 40
MaxAssets == 2
\* the dates of a fiscal year, and the last fiscal-year start that is closed
YearLength == 2
MaxFiscalYearStart == 4
\* the journals of a backup file
MaxBackupJournals == 1

(***************************************************************************)
(* The horizons calculateDepreciationSchedule is called with.              *)
(***************************************************************************)
DefaultNumberOfYears == 10
DetailNumberOfYears == 20
JournalNumberOfYears == 50

VARIABLES
    accounts,        \* accountStore.accounts: the chart of accounts
    entries,         \* journalStore.entries
    balances,        \* openingBalanceStore.settings.balances
    \* calculateDepreciationSchedule: its parameters ...
    asset,
    fyStartMonth,
    numberOfYears,
    \* ... and its locals
    yearIndex,       \* the loop variable i
    currentYear,
    accumulatedDepreciation,
    beginningBookValue,
    schedules,
    pc,              \* "idle", "loop" or "returned"
    settingsFiscalYearStart, \* openingBalanceStore.settings.fiscalYearStart
    step,            \* YearEndClosing: "preview", "confirm" or "complete"
    fixedAssets,     \* fixedAssetStore.assets
    journalMessage,  \* FixedAssetLedger: "none", "error", "info" or "success"
    taxInput,        \* the arguments of a call of calculateTax
    taxCalc          \* its TaxCalculation, [kind |-> "none"] before the call

ledgerVars == <<accounts, entries, balances>>

closingVars == <<settingsFiscalYearStart, step>>

assetVars == <<fixedAssets, journalMessage>>

taxVars == <<taxInput, taxCalc>>

otherVars == <<closingVars, assetVars, taxVars>>

scheduleVars == <<asset, fyStartMonth, numberOfYears, yearIndex, currentYear,
                  accumulatedDepreciation, beginningBookValue, schedules, pc>>

vars == <<ledgerVars, scheduleVars, otherVars>>

(***************************************************************************)
(* Generic helpers.                                                        *)
(***************************************************************************)
SeqSum(s) ==
    LET f[i \in 0..Len(s)] == IF i = 0 THEN 0 ELSE f[i - 1] + s[i]
    IN  f[Len(s)]

Abs(x) == IF x < 0 THEN -x ELSE x

Range(s) == {s[i] : i \in 1..Len(s)}

(***************************************************************************)
(* The chart of accounts.  defaultAccounts is a part of the default chart, *)
(* one account of each type; a chart of the model is three of them, and    *)
(* UnknownId is an id that no chart contains (the account was deleted).    *)
(*   Genkin = 現金, Kariirekin = 借入金,                                   *)
(*   KurikoshiRiekiJoyokin = 繰越利益剰余金, Uriage = 売上, Kyuryo = 給料  *)
(***************************************************************************)
defaultAccounts ==
    << [id |-> "acc-101", code |-> 101, name |-> "Genkin", type |-> "asset"],
       [id |-> "acc-210", code |-> 210, name |-> "Kariirekin", type |-> "liability"],
       [id |-> "acc-302", code |-> 302, name |-> "KurikoshiRiekiJoyokin", type |-> "equity"],
       [id |-> "acc-401", code |-> 401, name |-> "Uriage", type |-> "revenue"],
       [id |-> "acc-502", code |-> 502, name |-> "Kyuryo", type |-> "expense"] >>

UnknownId == "acc-x"

AllIds == {defaultAccounts[i].id : i \in 1..Len(defaultAccounts)} \cup {UnknownId}

\* cash, retained earnings and an expense; cash, a borrowing and sales
Charts ==
    { SelectSeq(defaultAccounts, LAMBDA a : a.type \in {"asset", "equity", "expense"}),
      SelectSeq(defaultAccounts, LAMBDA a : a.type \in {"asset", "liability", "revenue"}) }

Dates == 1..MaxDate

\* '' (no bound) or a date
FilterDates == 0..MaxDate

ChartIds(accs) == {accs[i].id : i \in 1..Len(accs)}

\* the ids an entry can carry: the chart's accounts and the unknown id
EntryAccountIds(accs) == ChartIds(accs) \cup {UnknownId}

\* accounts.find((a) => a.id === id): the first account with the id
findAccount(accs, id) == SelectSeq(accs, LAMBDA a : a.id = id)

getAccountType(accs, id) ==
    LET found == findAccount(accs, id)
    IN  IF Len(found) = 0 THEN "undefined" ELSE found[1].type

getAccountName(accs, id) ==
    LET found == findAccount(accs, id)
    IN  IF Len(found) = 0 THEN "" ELSE found[1].name

(***************************************************************************)
(* Date filter of the report screens.                                      *)
(***************************************************************************)
filteredEntries(es, startDate, endDate) ==
    SelectSeq(es, LAMBDA e :
        /\ ~(startDate # 0 /\ e.date < startDate)
        /\ ~(endDate # 0 /\ e.date > endDate))

(***************************************************************************)
(* Trial balance.                                                          *)
(***************************************************************************)
\* ids in insertion order of the Set
missingAccountIds(fe, accs) ==
    LET add(s, id) == IF id \in ChartIds(accs) \/ id \in Range(s) THEN s ELSE Append(s, id)
        f[i \in 0..Len(fe)] ==
            IF i = 0 THEN << >>
            ELSE add(add(f[i - 1], fe[i].debitAccountId), fe[i].creditAccountId)
    IN  f[Len(fe)]

\* an opening balance added to the credit side with its sign
applyOpeningBalanceSigned(tot, balance) ==
    IF balance.amount > 0
    THEN [tot EXCEPT ![balance.accountId] =
            [has |-> TRUE, debit |-> @.debit + balance.amount, credit |-> @.credit]]
    ELSE [tot EXCEPT ![balance.accountId] =
            [has |-> TRUE, debit |-> @.debit, credit |-> @.credit + balance.amount]]

\* one opening balance put into the Map accountTotals: a positive amount on
\* the debit side, another one with its absolute value on the credit side
applyOpeningBalance(tot, balance) ==
    IF balance.amount > 0
    THEN [tot EXCEPT ![balance.accountId] =
            [has |-> TRUE, debit |-> @.debit + balance.amount, credit |-> @.credit]]
    ELSE [tot EXCEPT ![balance.accountId] =
            [has |-> TRUE, debit |-> @.debit, credit |-> @.credit + Abs(balance.amount)]]

\* the Map accountTotals after the opening balances and the entries: has is
\* Map.has, debit and credit the totals of the key
accountTotals(fe, obs, includeOpeningBalance) ==
    LET empty == [id \in AllIds |-> [has |-> FALSE, debit |-> 0, credit |-> 0]]
        ob[i \in 0..Len(obs)] ==
            IF i = 0 THEN empty ELSE applyOpeningBalance(ob[i - 1], obs[i])
        en[i \in 0..Len(fe)] ==
            IF i = 0 THEN (IF includeOpeningBalance THEN ob[Len(obs)] ELSE empty)
            ELSE LET afterDebit == [en[i - 1] EXCEPT ![fe[i].debitAccountId] =
                         [has |-> TRUE, debit |-> @.debit + fe[i].amount, credit |-> @.credit]]
                 IN  [afterDebit EXCEPT ![fe[i].creditAccountId] =
                         [has |-> TRUE, debit |-> @.debit, credit |-> @.credit + fe[i].amount]]
    IN  en[Len(fe)]

\* rows.sort((a, b) => a.code.localeCompare(b.code)): a stable sort; the code
\* '???' of an unknown account is modelled as 0, before every numeric code
SortByCode(rows) ==
    LET insert(s, r) ==
            LET k == Cardinality({j \in 1..Len(s) : s[j].code <= r.code})
            IN  SubSeq(s, 1, k) \o <<r>> \o SubSeq(s, k + 1, Len(s))
        f[i \in 0..Len(rows)] == IF i = 0 THEN << >> ELSE insert(f[i - 1], rows[i])
    IN  f[Len(rows)]

withBalances(row) ==
    LET isDebitNormal == row.type = "asset" \/ row.type = "expense"
        netBalance == row.debitTotal - row.creditTotal
    IN  IF isDebitNormal
        THEN [row EXCEPT !.debitBalance = IF netBalance >= 0 THEN netBalance ELSE 0,
                         !.creditBalance = IF netBalance < 0 THEN -netBalance ELSE 0]
        ELSE [row EXCEPT !.debitBalance = IF netBalance > 0 THEN netBalance ELSE 0,
                         !.creditBalance = IF netBalance <= 0 THEN -netBalance ELSE 0]

\* no row for an id that the chart does not hold
missingRowsDropped(fe, accs, tot) == << >>

\* the rows of the unknown accounts
missingRows(fe, accs, tot) ==
    LET known == SelectSeq(missingAccountIds(fe, accs), LAMBDA id : tot[id].has)
    IN  [i \in 1..Len(known) |->
            [accountId |-> known[i], code |-> 0, type |-> "asset",
             debitTotal |-> tot[known[i]].debit, creditTotal |-> tot[known[i]].credit,
             debitBalance |-> 0, creditBalance |-> 0]]

\* the rows of the chart's accounts
accountRows(accs, tot) ==
    LET present == SelectSeq(accs, LAMBDA a : tot[a.id].has)
    IN  [i \in 1..Len(present) |->
            [accountId |-> present[i].id, code |-> present[i].code, type |-> present[i].type,
             debitTotal |-> tot[present[i].id].debit, creditTotal |-> tot[present[i].id].credit,
             debitBalance |-> 0, creditBalance |-> 0]]

balanceRows(fe, accs, tot) ==
    LET sorted == SortByCode(accountRows(accs, tot) \o missingRows(fe, accs, tot))
    IN  [i \in 1..Len(sorted) |-> withBalances(sorted[i])]

balanceData(fe, obs, accs, includeOpeningBalance) ==
    balanceRows(fe, accs, accountTotals(fe, obs, includeOpeningBalance))

totals(rows) ==
    [debitTotal |-> SeqSum([i \in 1..Len(rows) |-> rows[i].debitTotal]),
     creditTotal |-> SeqSum([i \in 1..Len(rows) |-> rows[i].creditTotal]),
     debitBalance |-> SeqSum([i \in 1..Len(rows) |-> rows[i].debitBalance]),
     creditBalance |-> SeqSum([i \in 1..Len(rows) |-> rows[i].creditBalance])]

isBalanced(rows) ==
    LET t == totals(rows) IN t.debitTotal = t.creditTotal

(***************************************************************************)
(* Financial statements (income statement and balance sheet).              *)
(***************************************************************************)
accountBalances(fe, obs, accs, includeOpeningBalance) ==
    LET empty == [id \in AllIds |-> 0]
        \* the opening balances go to the chart's balance-sheet accounts only
        ob[i \in 0..Len(obs)] ==
            IF i = 0 THEN empty
            ELSE IF getAccountType(accs, obs[i].accountId) \in {"asset", "liability", "equity"}
                 THEN [ob[i - 1] EXCEPT ![obs[i].accountId] = @ + obs[i].amount]
                 ELSE ob[i - 1]
        en[i \in 0..Len(fe)] ==
            IF i = 0 THEN (IF includeOpeningBalance THEN ob[Len(obs)] ELSE empty)
            ELSE LET afterDebit == [en[i - 1] EXCEPT ![fe[i].debitAccountId] = @ + fe[i].amount]
                 IN  [afterDebit EXCEPT ![fe[i].creditAccountId] = @ - fe[i].amount]
        raw == en[Len(fe)]
        nonzero == SelectSeq(accs, LAMBDA a : raw[a.id] # 0)
    IN  SortByCode([i \in 1..Len(nonzero) |->
            [id |-> nonzero[i].id, code |-> nonzero[i].code, type |-> nonzero[i].type,
             balance |-> IF nonzero[i].type = "asset" \/ nonzero[i].type = "expense"
                         THEN raw[nonzero[i].id] ELSE -raw[nonzero[i].id]]])

SumBalance(rows) == SeqSum([i \in 1..Len(rows) |-> rows[i].balance])

plData(ab) ==
    LET revenue == SelectSeq(ab, LAMBDA a : a.type = "revenue")
        expense == SelectSeq(ab, LAMBDA a : a.type = "expense")
        totalRevenue == SumBalance(revenue)
        totalExpense == SumBalance(expense)
    IN  [revenue |-> revenue, expense |-> expense, totalRevenue |-> totalRevenue,
         totalExpense |-> totalExpense, netIncome |-> totalRevenue - totalExpense]

\* the balance sheet with the net income left out of totalEquity
bsDataWithoutNetIncome(ab, netIncome) ==
    LET assets == SelectSeq(ab, LAMBDA a : a.type = "asset")
        liabilities == SelectSeq(ab, LAMBDA a : a.type = "liability")
        equity == SelectSeq(ab, LAMBDA a : a.type = "equity")
    IN  [assets |-> assets, liabilities |-> liabilities, equity |-> equity,
         totalAssets |-> SumBalance(assets), totalLiabilities |-> SumBalance(liabilities),
         totalEquity |-> SumBalance(equity), netIncome |-> netIncome]

\* totalEquity is the equity total with the net income of the period added
bsData(ab, netIncome) ==
    LET assets == SelectSeq(ab, LAMBDA a : a.type = "asset")
        liabilities == SelectSeq(ab, LAMBDA a : a.type = "liability")
        equity == SelectSeq(ab, LAMBDA a : a.type = "equity")
    IN  [assets |-> assets, liabilities |-> liabilities, equity |-> equity,
         totalAssets |-> SumBalance(assets), totalLiabilities |-> SumBalance(liabilities),
         totalEquity |-> SumBalance(equity) + netIncome, netIncome |-> netIncome]

(***************************************************************************)
(* Year-end closing.                                                       *)
(***************************************************************************)
isBalanceSheetAccount(type) == type = "asset" \/ type = "liability" \/ type = "equity"

\* 繰越利益剰余金, 利益剰余金, 繰越利益
RetainedEarningsNames == {"KurikoshiRiekiJoyokin", "RiekiJoyokin", "KurikoshiRieki"}

\* the account with one of the names, or else the first liability or equity
\* account of the chart
findRetainedEarningsAccountOrFirstCredit(accs) ==
    LET found == SelectSeq(accs, LAMBDA a : a.name \in RetainedEarningsNames)
        credit == SelectSeq(accs, LAMBDA a : a.type \in {"liability", "equity"})
    IN  IF Len(found) # 0 THEN found[1].id
        ELSE IF Len(credit) # 0 THEN credit[1].id ELSE "undefined"

\* the first account of the chart with one of the names, or "undefined"
findRetainedEarningsAccount(accs) ==
    LET found == SelectSeq(accs, LAMBDA a : a.name \in RetainedEarningsNames)
    IN  IF Len(found) = 0 THEN "undefined" ELSE found[1].id

\* the balance a posting to an account of this type adds on the debit side
\* (side = 1) and on the credit side (side = -1); an account that is no
\* balance-sheet account of the chart gets no balance
postingDelta(type, side, amount) ==
    IF type = "asset" THEN side * amount
    ELSE IF type = "liability" \/ type = "equity" THEN -side * amount
    ELSE 0

\* the balances Map after the opening balances and the entries of the period
periodBalances(pe, accs, obs) ==
    LET empty == [id \in AllIds |-> 0]
        ob[i \in 0..Len(obs)] ==
            IF i = 0 THEN empty ELSE [ob[i - 1] EXCEPT ![obs[i].accountId] = obs[i].amount]
        en[i \in 0..Len(pe)] ==
            IF i = 0 THEN ob[Len(obs)]
            ELSE LET debitType == getAccountType(accs, pe[i].debitAccountId)
                     creditType == getAccountType(accs, pe[i].creditAccountId)
                     afterDebit == [en[i - 1] EXCEPT ![pe[i].debitAccountId] =
                                       @ + postingDelta(debitType, 1, pe[i].amount)]
                 IN  [afterDebit EXCEPT ![pe[i].creditAccountId] =
                         @ + postingDelta(creditType, -1, pe[i].amount)]
    IN  en[Len(pe)]

\* revenue credited less expense debited, the reversing postings ignored
periodNetProfitNoReversal(pe, accs) ==
    LET rev(e) == IF getAccountType(accs, e.creditAccountId) = "revenue" THEN e.amount ELSE 0
        exp(e) == IF getAccountType(accs, e.debitAccountId) = "expense" THEN e.amount ELSE 0
    IN  SeqSum([i \in 1..Len(pe) |-> rev(pe[i])]) - SeqSum([i \in 1..Len(pe) |-> exp(pe[i])])

\* totalRevenue - totalExpense of the period
periodNetProfit(pe, accs) ==
    LET rev(e) == (IF getAccountType(accs, e.creditAccountId) = "revenue" THEN e.amount ELSE 0)
                  - (IF getAccountType(accs, e.debitAccountId) = "revenue" THEN e.amount ELSE 0)
        exp(e) == (IF getAccountType(accs, e.debitAccountId) = "expense" THEN e.amount ELSE 0)
                  - (IF getAccountType(accs, e.creditAccountId) = "expense" THEN e.amount ELSE 0)
    IN  SeqSum([i \in 1..Len(pe) |-> rev(pe[i])]) - SeqSum([i \in 1..Len(pe) |-> exp(pe[i])])

\* the carry-forward with the balance of a liability or equity account negated
carryForwardNegated(accs, bal) ==
    LET kept == SelectSeq(accs, LAMBDA a : isBalanceSheetAccount(a.type) /\ bal[a.id] # 0)
    IN  [i \in 1..Len(kept) |->
            [accountId |-> kept[i].id,
             amount |-> IF kept[i].type = "asset" THEN bal[kept[i].id] ELSE -bal[kept[i].id]]]

\* the opening balances of the next period: the nonzero balance-sheet accounts
carryForwardOf(accs, bal) ==
    LET kept == SelectSeq(accs, LAMBDA a : isBalanceSheetAccount(a.type) /\ bal[a.id] # 0)
    IN  [i \in 1..Len(kept) |-> [accountId |-> kept[i].id, amount |-> bal[kept[i].id]]]

closingBalancesOf(accs, bal) ==
    LET kept == SelectSeq(accs, LAMBDA a : isBalanceSheetAccount(a.type) /\ bal[a.id] # 0)
    IN  [i \in 1..Len(kept) |->
            [accountId |-> kept[i].id, accountType |-> kept[i].type, balance |-> bal[kept[i].id]]]

calculateYearEndClosing(es, accs, obs, fyStart, fyEnd) ==
    LET periodEntries == SelectSeq(es, LAMBDA e : e.date >= fyStart /\ e.date <= fyEnd)
        netProfit == periodNetProfit(periodEntries, accs)
        retainedEarningsAccount == findRetainedEarningsAccount(accs)
        rolled == retainedEarningsAccount # "undefined" /\ netProfit # 0
        bal0 == periodBalances(periodEntries, accs, obs)
        bal == IF rolled
               THEN [bal0 EXCEPT ![retainedEarningsAccount] = @ - netProfit]
               ELSE bal0
        closingEntry ==
            IF ~rolled THEN [kind |-> "null"]
            ELSE IF netProfit > 0
                 THEN [kind |-> "entry", debitAccountId |-> "",
                       creditAccountId |-> retainedEarningsAccount, amount |-> netProfit]
                 ELSE [kind |-> "entry", debitAccountId |-> retainedEarningsAccount,
                       creditAccountId |-> "", amount |-> Abs(netProfit)]
    IN  [closingBalances |-> closingBalancesOf(accs, bal),
         netProfit |-> netProfit,
         closingEntry |-> closingEntry,
         carryForwardBalances |-> carryForwardOf(accs, bal)]

\* the day before the same day of the next year
calculateFiscalYearEnd(fiscalYearStart) == fiscalYearStart + YearLength - 1

\* the same day of the next year
calculateNextFiscalYearStart(fiscalYearStart) == fiscalYearStart + YearLength

\* the useMemo of the closing screen: computed from the stores at every render
closingResult ==
    calculateYearEndClosing(entries, accounts, balances, settingsFiscalYearStart,
                            calculateFiscalYearEnd(settingsFiscalYearStart))

\* the new balances laid over the stored ones: a stored record stays unless
\* a new record has its account
setBalancesMerged(newBalances) ==
    SelectSeq(balances, LAMBDA b : \A i \in 1..Len(newBalances) :
                                      newBalances[i].accountId # b.accountId)
        \o SelectSeq(newBalances, LAMBDA b : b.amount # 0)

\* openingBalanceStore.setBalances: the stored balances become the new ones
setBalances(newBalances) == SelectSeq(newBalances, LAMBDA b : b.amount # 0)

(***************************************************************************)
(* Cash-flow statement (indirect method).  The accounts are classified by  *)
(* their names; each set holds the names of the model that the test of     *)
(* the source accepts.                                                     *)
(***************************************************************************)
\* name === '現金' || name.includes('預金') || name === '小口現金'
isCashAccount(accs, id) == getAccountName(accs, id) \in {"Genkin", "FutsuYokin", "TozaYokin", "KoguchiGenkin"}

\* 売掛金, 受取手形
isReceivable(accs, id) == getAccountName(accs, id) \in {"Urikakekin", "UketoriTegata"}

\* 商品, 製品, 原材料, 仕掛品
isInventory(accs, id) == getAccountName(accs, id) \in {"Shohin", "Seihin", "Genzairyo", "Shikakarihin"}

\* 買掛金, 支払手形
isPayable(accs, id) == getAccountName(accs, id) \in {"Kaikakekin", "ShiharaiTegata"}

\* the name includes 備品, 車両, 建物, 土地, 機械, ソフトウェア or 工具器具備品
isFixedAsset(accs, id) ==
    getAccountName(accs, id) \in {"Bihin", "SharyoUnpangu", "Tatemono", "Tochi", "KikaiSochi", "Software"}

\* the name includes 借入金
isBorrowing(accs, id) == getAccountName(accs, id) \in {"Kariirekin", "TankiKariirekin", "ChokiKariirekin"}

\* the name includes 減価償却
isDepreciation(accs, id) == getAccountName(accs, id) \in {"GenkaShokyakuhi", "GenkaShokyakuRuikeigaku"}

\* 資本金
isCapital(accs, id) == getAccountName(accs, id) = "Shihonkin"

\* an asset that is none of the above and whose name includes 前払, 仮払, 未収,
\* 立替 or 短期貸付
isOtherCurrentAsset(accs, id) ==
    /\ getAccountType(accs, id) = "asset"
    /\ ~isCashAccount(accs, id)
    /\ ~isReceivable(accs, id)
    /\ ~isInventory(accs, id)
    /\ ~isFixedAsset(accs, id)
    /\ getAccountName(accs, id) \in {"KaribaraiShohizei", "MaebaraiHiyo", "Mishukin"}

\* a liability that is neither payable nor borrowing and whose name includes
\* 未払, 前受, 仮受, 預り or 賞与引当
isOtherCurrentLiability(accs, id) ==
    /\ getAccountType(accs, id) = "liability"
    /\ ~isPayable(accs, id)
    /\ ~isBorrowing(accs, id)
    /\ getAccountName(accs, id) \in {"Miharaikin", "KariukeShohizei", "MiharaiShohizei", "Azukarikin"}

\* the bucket of the if / else-if chain over the chart's accounts
cashFlowBucket(accs, id) ==
    IF isCashAccount(accs, id) THEN "cash"
    ELSE IF isReceivable(accs, id) THEN "receivable"
    ELSE IF isInventory(accs, id) THEN "inventory"
    ELSE IF isPayable(accs, id) THEN "payable"
    ELSE IF isFixedAsset(accs, id) THEN "fixedAsset"
    ELSE IF isBorrowing(accs, id) THEN "borrowing"
    ELSE IF isCapital(accs, id) THEN "capital"
    ELSE IF isOtherCurrentAsset(accs, id) THEN "otherCurrentAsset"
    ELSE IF isOtherCurrentLiability(accs, id) THEN "otherCurrentLiability"
    ELSE "none"

\* the loop over the chart's accounts: the cash balances and the change of
\* each bucket; the payable, borrowing, capital and other-current-liability
\* changes are subtracted
accountChanges(accs, beginningBalances, endingBalances) ==
    LET zero == [beginningCash |-> 0, endingCash |-> 0, receivable |-> 0, inventory |-> 0,
                 payable |-> 0, fixedAsset |-> 0, borrowing |-> 0, capital |-> 0,
                 otherCurrentAsset |-> 0, otherCurrentLiability |-> 0]
        f[i \in 0..Len(accs)] ==
            IF i = 0 THEN zero
            ELSE LET id == accs[i].id
                     beginning == beginningBalances[id]
                     ending == endingBalances[id]
                     change == ending - beginning
                     b == cashFlowBucket(accs, id)
                     prev == f[i - 1]
                 IN  IF b = "cash"
                     THEN [prev EXCEPT !.beginningCash = @ + beginning, !.endingCash = @ + ending]
                     ELSE IF b \in {"receivable", "inventory", "fixedAsset", "otherCurrentAsset"}
                     THEN [prev EXCEPT ![b] = @ + change]
                     ELSE IF b \in {"payable", "borrowing", "capital", "otherCurrentLiability"}
                     THEN [prev EXCEPT ![b] = @ - change]
                     ELSE prev
    IN  f[Len(accs)]

\* the financing subtotal added instead of subtracted
operatingSubtotalSignSlip(actualCashChange, investingSubtotal, financingSubtotal) ==
    actualCashChange - investingSubtotal + financingSubtotal

\* operatingSubtotal: the cash change less the investing and financing subtotals
operatingSubtotalOf(actualCashChange, investingSubtotal, financingSubtotal) ==
    actualCashChange - investingSubtotal - financingSubtotal

\* no adjustment: the listed items stay as computed
operatingAdjustmentDropped(operatingSubtotal, calculatedOperating) == 0

\* operatingAdjustment: the gap between the residual subtotal and the items
operatingAdjustmentOf(operatingSubtotal, calculatedOperating) ==
    operatingSubtotal - calculatedOperating

calculateCashFlow(es, accs, obs) ==
    LET empty == [id \in AllIds |-> 0]
        ob[i \in 0..Len(obs)] ==
            IF i = 0 THEN empty ELSE [ob[i - 1] EXCEPT ![obs[i].accountId] = obs[i].amount]
        beginningBalances == ob[Len(obs)]
        en[i \in 0..Len(es)] ==
            IF i = 0 THEN beginningBalances
            ELSE LET debitType == getAccountType(accs, es[i].debitAccountId)
                     creditType == getAccountType(accs, es[i].creditAccountId)
                     afterDebit == [en[i - 1] EXCEPT ![es[i].debitAccountId] =
                                       @ + postingDelta(debitType, 1, es[i].amount)]
                 IN  [afterDebit EXCEPT ![es[i].creditAccountId] =
                         @ + postingDelta(creditType, -1, es[i].amount)]
        endingBalances == en[Len(es)]
        revenue == SeqSum([i \in 1..Len(es) |->
                       IF getAccountType(accs, es[i].creditAccountId) = "revenue"
                       THEN es[i].amount ELSE 0])
        expenses == SeqSum([i \in 1..Len(es) |->
                       IF getAccountType(accs, es[i].debitAccountId) = "expense"
                       THEN es[i].amount ELSE 0])
        netProfit == revenue - expenses
        depreciation == SeqSum([i \in 1..Len(es) |->
                       IF isDepreciation(accs, es[i].debitAccountId) THEN es[i].amount ELSE 0])
        ch == accountChanges(accs, beginningBalances, endingBalances)
        beginningCash == ch.beginningCash
        endingCash == ch.endingCash
        receivableChange == ch.receivable
        inventoryChange == ch.inventory
        payableChange == ch.payable
        fixedAssetChange == ch.fixedAsset
        borrowingChange == ch.borrowing
        capitalChange == ch.capital
        otherCurrentAssetChange == ch.otherCurrentAsset
        otherCurrentLiabilityChange == ch.otherCurrentLiability
        actualCashChange == endingCash - beginningCash
        accountsReceivableChange == -receivableChange
        inventoryChangeCF == -inventoryChange
        accountsPayableChange == payableChange
        otherCurrentAssetChangeCF == -otherCurrentAssetChange
        otherCurrentLiabilityChangeCF == otherCurrentLiabilityChange
        fixedAssetPurchase == IF fixedAssetChange > 0 THEN -fixedAssetChange ELSE 0
        fixedAssetSale == IF fixedAssetChange < 0 THEN -fixedAssetChange ELSE 0
        investingSubtotal == fixedAssetPurchase + fixedAssetSale
        borrowing == IF borrowingChange > 0 THEN borrowingChange ELSE 0
        repayment == IF borrowingChange < 0 THEN borrowingChange ELSE 0
        capitalIncrease == IF capitalChange > 0 THEN capitalChange ELSE 0
        financingSubtotal == borrowing + repayment + capitalIncrease
        calculatedOperating == netProfit + depreciation + accountsReceivableChange
                               + inventoryChangeCF + accountsPayableChange
                               + otherCurrentAssetChangeCF + otherCurrentLiabilityChangeCF
        operatingSubtotal ==
            operatingSubtotalOf(actualCashChange, investingSubtotal, financingSubtotal)
        operatingAdjustment == operatingAdjustmentOf(operatingSubtotal, calculatedOperating)
    IN  [operating |->
            [netProfit |-> netProfit, depreciation |-> depreciation,
             accountsReceivableChange |-> accountsReceivableChange,
             inventoryChange |-> inventoryChangeCF,
             accountsPayableChange |-> accountsPayableChange,
             otherCurrentAssetChange |-> otherCurrentAssetChangeCF,
             otherCurrentLiabilityChange |-> otherCurrentLiabilityChangeCF + operatingAdjustment,
             subtotal |-> operatingSubtotal],
         investing |->
            [fixedAssetPurchase |-> fixedAssetPurchase, fixedAssetSale |-> fixedAssetSale,
             otherInvesting |-> 0, subtotal |-> investingSubtotal],
         financing |->
            [borrowing |-> borrowing, repayment |-> repayment,
             capitalIncrease |-> capitalIncrease, dividends |-> 0, otherFinancing |-> 0,
             subtotal |-> financingSubtotal],
         totalCashFlow |-> actualCashChange,
         beginningCash |-> beginningCash,
         endingCash |-> endingCash]

(***************************************************************************)
(* Fixed-asset depreciation.                                               *)
(***************************************************************************)
\* the useful lives of the model, rows of the three rate tables
UsefulLives == {2, 3, 5, 10, 20}

\* in 1/1000
decliningBalanceRates == (2 :> 1000 @@ 3 :> 667 @@ 5 :> 400 @@ 10 :> 200 @@ 20 :> 100)

\* in 1/100000
guaranteeRates == (2 :> 0 @@ 3 :> 11089 @@ 5 :> 10800 @@ 10 :> 6552 @@ 20 :> 3486)

\* in 1/1000
revisedRates == (2 :> 0 @@ 3 :> 1000 @@ 5 :> 500 @@ 10 :> 250 @@ 20 :> 100)

\* table[usefulLife] || fallback: a missing row and a row of 0 give the fallback
OrElse(table, usefulLife, fallback) ==
    IF usefulLife \in DOMAIN table /\ table[usefulLife] # 0 THEN table[usefulLife] ELSE fallback

\* decliningBalanceRates[usefulLife] || (2 / usefulLife)
getDecliningBalanceRate(usefulLife) ==
    OrElse(decliningBalanceRates, usefulLife, 2000 \div usefulLife)

\* guaranteeRates[usefulLife] || 0.05
getGuaranteeRate(usefulLife) == OrElse(guaranteeRates, usefulLife, 5000)

\* revisedRates[usefulLife] || (1 / usefulLife)
getRevisedRate(usefulLife) == OrElse(revisedRates, usefulLife, 1000 \div usefulLife)

\* Math.round(n / d) for d > 0
RoundDiv(n, d) == (2 * n + d) \div (2 * d)

Max(a, b) == IF a > b THEN a ELSE b

Min(a, b) == IF a < b THEN a ELSE b

\* the month of a date
MonthOf(year, month) == 12 * year + month

\* the months counted from the acquisition month itself
getDepreciationMonthsFromAcquisitionMonth(acquisitionDate, fiscalYearStart, fiscalYearEnd, isDisposed, disposalDate) ==
    IF acquisitionDate > fiscalYearEnd THEN 0
    ELSE LET disposed == isDisposed /\ disposalDate # 0
             depreciationEnd ==
                 IF disposed THEN Min(disposalDate, fiscalYearEnd) ELSE fiscalYearEnd
         IN  IF disposed /\ disposalDate < fiscalYearStart THEN 0
             ELSE Min(12, Max(0, depreciationEnd - Max(acquisitionDate, fiscalYearStart) + 1))

\* the months of the fiscal year in which the asset is depreciated; the dates
\* are months, disposalDate is 0 when the asset has none
getDepreciationMonths(acquisitionDate, fiscalYearStart, fiscalYearEnd, isDisposed, disposalDate) ==
    IF acquisitionDate > fiscalYearEnd THEN 0
    ELSE LET depreciationStart ==
                 IF acquisitionDate < fiscalYearStart THEN fiscalYearStart
                 ELSE acquisitionDate + 1
             disposed == isDisposed /\ disposalDate # 0
             depreciationEnd ==
                 IF disposed THEN Min(disposalDate, fiscalYearEnd) ELSE fiscalYearEnd
         IN  IF disposed /\ disposalDate < fiscalYearStart THEN 0
             ELSE IF depreciationStart > depreciationEnd THEN 0
             ELSE Min(12, Max(0, depreciationEnd - depreciationStart + 1))

\* the straight-line amount on the whole acquisition cost
straightLineIgnoringResidual(acquisitionCost, residualValue, usefulLife, months) ==
    RoundDiv(acquisitionCost * months, usefulLife * 12)

\* Math.round((acquisitionCost - residualValue) / usefulLife * months / 12)
calculateStraightLineDepreciation(acquisitionCost, residualValue, usefulLife, months) ==
    RoundDiv((acquisitionCost - residualValue) * months, usefulLife * 12)

\* the guarantee test made on the amount of the year's months
calculateDecliningBalanceProratedTest(acquisitionCost, bookValue, usefulLife, months) ==
    LET rate == getDecliningBalanceRate(usefulLife)
        guaranteeRate == getGuaranteeRate(usefulLife)
        revisedRate == getRevisedRate(usefulLife)
        belowGuarantee ==
            ((bookValue * rate * months) \div 12) * 100 < acquisitionCost * guaranteeRate
        annualRate == IF belowGuarantee THEN revisedRate ELSE rate
        monthlyDepreciation == RoundDiv(bookValue * annualRate * months, 12000)
        remainingValue == bookValue - monthlyDepreciation
    IN  IF remainingValue < 1 THEN Max(0, bookValue - 1) ELSE monthlyDepreciation

calculateDecliningBalanceDepreciation(acquisitionCost, bookValue, usefulLife, months) ==
    LET rate == getDecliningBalanceRate(usefulLife)
        guaranteeRate == getGuaranteeRate(usefulLife)
        revisedRate == getRevisedRate(usefulLife)
        \* normalDepreciation < guaranteeAmount
        belowGuarantee == bookValue * rate * 100 < acquisitionCost * guaranteeRate
        annualRate == IF belowGuarantee THEN revisedRate ELSE rate
        monthlyDepreciation == RoundDiv(bookValue * annualRate * months, 12000)
        remainingValue == bookValue - monthlyDepreciation
    IN  IF remainingValue < 1 THEN Max(0, bookValue - 1) ELSE monthlyDepreciation

\* the year amount of the asset's method
yearAmount(a, bookValue, months) ==
    IF a.depreciationMethod = "straight_line"
    THEN calculateStraightLineDepreciation(a.acquisitionCost, a.residualValue, a.usefulLife, months)
    ELSE calculateDecliningBalanceDepreciation(a.acquisitionCost, bookValue, a.usefulLife, months)

\* the year amount taken as computed
withoutMemorandumValue(bookValue, depreciationAmount) == depreciationAmount

\* the year amount that leaves the memorandum value of 1
secureMemorandumValue(bookValue, depreciationAmount) ==
    IF bookValue - depreciationAmount < 1 THEN bookValue - 1 ELSE depreciationAmount

\* asset.isDisposed && asset.disposalDate
hasDisposal(a) == a.isDisposed /\ a.disposalDate # 0

\* the first fiscal year: the year of the acquisition, or the year before when
\* the acquisition month is before the month the fiscal year starts in
firstFiscalYear(a, startMonth) ==
    IF a.acquisitionMonth < startMonth THEN a.acquisitionYear - 1 ELSE a.acquisitionYear

\* the loop without the break at the memorandum value
loopContinuesPastMemorandum ==
    /\ yearIndex < numberOfYears
    /\ ~(hasDisposal(asset) /\ asset.disposalDate < MonthOf(currentYear, fyStartMonth))

\* the for loop goes on: i < numberOfYears and neither break at its top is taken
loopContinues ==
    /\ yearIndex < numberOfYears
    /\ beginningBookValue > 1
    /\ ~(hasDisposal(asset) /\ asset.disposalDate < MonthOf(currentYear, fyStartMonth))

(***************************************************************************)
(* Depreciation journals.                                                  *)
(***************************************************************************)
\* the two accounts of the default chart that the depreciation journals use:
\*   GenkaShokyakuRuikeigaku = 減価償却累計額, GenkaShokyakuhi = 減価償却費
depreciationAccounts ==
    << [id |-> "acc-159", code |-> 159, name |-> "GenkaShokyakuRuikeigaku", type |-> "asset"],
       [id |-> "acc-508", code |-> 508, name |-> "GenkaShokyakuhi", type |-> "expense"] >>

\* accounts.find((a) => a.name === name): the accounts with the name, in order
findAccountByName(accs, name) == SelectSeq(accs, LAMBDA a : a.name = name)

\* the year and the month of a date
YearOf(date) == (date - 1) \div 12

MonthOfYear(date) == date - 12 * YearOf(date)

\* calculateDepreciationSchedule as a function: the rows it returns; a loop
\* state is carried through the at most numberOfYears passes
calculateDepreciationSchedule(a, fiscalYearStart, years) ==
    LET startMonth == MonthOfYear(fiscalYearStart)
        acquisitionDate == MonthOf(a.acquisitionYear, a.acquisitionMonth)
        start == [currentYear |-> firstFiscalYear(a, startMonth), accumulated |-> 0,
                  bookValue |-> a.acquisitionCost, rows |-> << >>, done |-> FALSE]
        pass(st, i) ==
            LET yearStart == MonthOf(st.currentYear, startMonth)
                yearEnd == yearStart + 11
                months == getDepreciationMonths(acquisitionDate, yearStart, yearEnd,
                              a.isDisposed, a.disposalDate)
                depreciationAmount ==
                    secureMemorandumValue(st.bookValue, yearAmount(a, st.bookValue, months))
                endingBookValue == st.bookValue - depreciationAmount
            IN  IF st.bookValue <= 1 THEN [st EXCEPT !.done = TRUE]
                ELSE IF hasDisposal(a) /\ a.disposalDate < yearStart
                THEN [st EXCEPT !.done = TRUE]
                ELSE IF months = 0 /\ i > 0
                THEN [st EXCEPT !.currentYear = @ + 1]
                ELSE [currentYear |-> st.currentYear + 1,
                      accumulated |-> st.accumulated + depreciationAmount,
                      bookValue |-> endingBookValue,
                      rows |-> Append(st.rows,
                          [fiscalYear |-> st.currentYear, yearStartDate |-> yearStart,
                           yearEndDate |-> yearEnd, beginningBookValue |-> st.bookValue,
                           depreciationAmount |-> depreciationAmount,
                           accumulatedDepreciation |-> st.accumulated + depreciationAmount,
                           endingBookValue |-> endingBookValue, months |-> months]),
                      done |-> hasDisposal(a) /\ a.disposalDate <= yearEnd]
        \* the passes i = from .. from + n - 1 of the loop, until a break
        RECURSIVE passes(_, _, _)
        passes(st, from, n) ==
            IF n = 0 \/ st.done THEN st
            ELSE IF n = 1 THEN pass(st, from)
            ELSE LET half == n \div 2
                     mid == passes(st, from, half)
                 IN  passes(mid, from + half, n - half)
    IN  passes(start, 0, years).rows

\* every asset of the list, disposed or not
activeAssetsUnfiltered(assetList) == assetList

\* assets.filter((asset) => !asset.isDisposed)
activeAssetsOf(assetList) == SelectSeq(assetList, LAMBDA a : ~a.isDisposed)

\* schedules.find((s) => s.fiscalYear === fiscalYear): the rows of the year
currentScheduleOf(a, fiscalYearStart, fiscalYear) ==
    SelectSeq(calculateDepreciationSchedule(a, fiscalYearStart, JournalNumberOfYears),
              LAMBDA s : s.fiscalYear = fiscalYear)

\* the forEach over the active assets: an entry for every asset whose row of
\* the year has an amount other than 0
journalsOf(activeAssets, debitId, creditId, fiscalYearStart, fiscalYear) ==
    LET none == [entries |-> << >>, totalAmount |-> 0, assetCount |-> 0, errors |-> << >>]
        f[j \in 0..Len(activeAssets)] ==
            IF j = 0 THEN none
            ELSE LET prev == f[j - 1]
                     found == currentScheduleOf(activeAssets[j], fiscalYearStart, fiscalYear)
                 IN  IF Len(found) = 0 \/ found[1].depreciationAmount = 0 THEN prev
                     ELSE [entries |-> Append(prev.entries,
                               [date |-> found[1].yearEndDate,
                                debitAccountId |-> debitId,
                                creditAccountId |-> creditId,
                                amount |-> found[1].depreciationAmount]),
                           totalAmount |-> prev.totalAmount + found[1].depreciationAmount,
                           assetCount |-> prev.assetCount + 1,
                           errors |-> << >>]
    IN  f[Len(activeAssets)]

\* the errors pushed, the entries generated all the same
generateDepreciationJournalsNoReturn(assetList, accs, fiscalYearStart, fiscalYear) ==
    LET depreciationExpenseAccount == findAccountByName(accs, "GenkaShokyakuhi")
        accumulatedDepreciationAccount == findAccountByName(accs, "GenkaShokyakuRuikeigaku")
        idOf(found) == IF Len(found) = 0 THEN "undefined" ELSE found[1].id
        generated == journalsOf(activeAssetsOf(assetList), idOf(depreciationExpenseAccount),
                                idOf(accumulatedDepreciationAccount), fiscalYearStart, fiscalYear)
    IN  [generated EXCEPT !.errors =
            (IF Len(depreciationExpenseAccount) = 0 THEN <<"GenkaShokyakuhi">> ELSE << >>)
            \o (IF Len(accumulatedDepreciationAccount) = 0
                THEN <<"GenkaShokyakuRuikeigaku">> ELSE << >>)]

generateDepreciationJournals(assetList, accs, fiscalYearStart, fiscalYear) ==
    LET depreciationExpenseAccount == findAccountByName(accs, "GenkaShokyakuhi")
        accumulatedDepreciationAccount == findAccountByName(accs, "GenkaShokyakuRuikeigaku")
        none == [entries |-> << >>, totalAmount |-> 0, assetCount |-> 0, errors |-> << >>]
    IN  IF Len(depreciationExpenseAccount) = 0
        THEN [none EXCEPT !.errors = <<"GenkaShokyakuhi">>]
        ELSE IF Len(accumulatedDepreciationAccount) = 0
        THEN [none EXCEPT !.errors = <<"GenkaShokyakuRuikeigaku">>]
        ELSE journalsOf(activeAssetsOf(assetList), depreciationExpenseAccount[1].id,
                        accumulatedDepreciationAccount[1].id, fiscalYearStart, fiscalYear)

\* fiscalYearInfo and the call of generateDepreciationJournals of the screen
journalResult ==
    generateDepreciationJournals(fixedAssets, accounts, settingsFiscalYearStart,
                                 YearOf(settingsFiscalYearStart))

(***************************************************************************)
(* Consumption tax.                                                        *)
(***************************************************************************)
\* the rates of the type TaxRate
TaxRates == {0, 8, 10}

\* amount / (1 + taxRate / 100) is a division of doubles: for these amounts
\* (all there are from -20 to 300, at the rates 5, 8 and 10) the exact quotient
\* is an integer and the double quotient is below it
quotientBelowInteger ==
    (5 :> {}
     @@ 8 :> {135, 243, 270}
     @@ 10 :> {33, 55, 66, 99, 110, 121, 132, 198, 209, 220, 231, 242, 253, 264, 275})

\* Math.floor(amount / (1 + rate))
floorOfQuotient(amount, taxRate) ==
    LET exact == (amount * 100) \div (100 + taxRate)
    IN  IF amount \in quotientBelowInteger[taxRate] THEN exact - 1 ELSE exact

\* Math.floor(amount * rate): the double product has the floor of the exact one
floorOfProduct(amount, taxRate) == (amount * taxRate) \div 100

\* the tax of a tax-included amount computed from the base amount and the rate
includedTaxAmountByRate(amount, baseAmount, taxRate) == floorOfProduct(baseAmount, taxRate)

\* taxAmount = amount - baseAmount
includedTaxAmount(amount, baseAmount, taxRate) == amount - baseAmount

calculateTax(amount, taxRate, taxIncluded) ==
    IF taxRate = 0
    THEN [kind |-> "result", baseAmount |-> amount, taxAmount |-> 0,
          totalAmount |-> amount, taxRate |-> 0]
    ELSE IF taxIncluded = "included"
    THEN LET baseAmount == floorOfQuotient(amount, taxRate)
         IN  [kind |-> "result", baseAmount |-> baseAmount,
              taxAmount |-> includedTaxAmount(amount, baseAmount, taxRate),
              totalAmount |-> amount, taxRate |-> taxRate]
    ELSE LET taxAmount == floorOfProduct(amount, taxRate)
         IN  [kind |-> "result", baseAmount |-> amount, taxAmount |-> taxAmount,
              totalAmount |-> amount + taxAmount, taxRate |-> taxRate]

(***************************************************************************)
(* Claims about the trial balance.                                         *)
(***************************************************************************)
OpeningSumOn(obs, ids) ==
    SeqSum([i \in 1..Len(obs) |-> IF obs[i].accountId \in ids THEN obs[i].amount ELSE 0])

EntryIds(fe) ==
    {fe[i].debitAccountId : i \in 1..Len(fe)} \cup {fe[i].creditAccountId : i \in 1..Len(fe)}

\* C1 as stated: for any entries and any opening-balance set, the trial
\* balance with the opening balances included has total debitTotal equal to
\* total creditTotal.
C1_AlwaysBalancedWithOpening ==
    \A s \in FilterDates, e \in FilterDates :
        isBalanced(balanceData(filteredEntries(entries, s, e), balances, accounts, TRUE))

\* C1 amended: with the opening balances included, total debitTotal minus
\* total creditTotal of the trial balance equals the sum of the signed opening
\* amounts of the accounts that have a row (accounts of the chart, and ids an
\* entry references); the entries contribute nothing to the difference, so the
\* totals agree exactly when those opening amounts sum to 0.
C1_DifferenceIsOpeningSum ==
    \A s \in FilterDates, e \in FilterDates :
        LET fe == filteredEntries(entries, s, e)
            t == totals(balanceData(fe, balances, accounts, TRUE))
        IN  t.debitTotal - t.creditTotal
                = OpeningSumOn(balances, ChartIds(accounts) \cup EntryIds(fe))

C1_Witness ==
    /\ Len(entries) = 2
    /\ Len(balances) = 2
    /\ OpeningSumOn(balances, ChartIds(accounts)) = 0
    /\ totals(balanceData(entries, balances, accounts, TRUE)).debitTotal = 2 * MaxAmount + 1

\* C2: for any start/end date filter (0 = no bound) the trial balance of the
\* filtered entries without opening balances has total debitTotal equal to
\* total creditTotal, also when entries reference ids absent from the chart.
C2_FilteredTrialBalanceBalanced ==
    \A s \in FilterDates, e \in FilterDates :
        isBalanced(balanceData(filteredEntries(entries, s, e), balances, accounts, FALSE))

C2_Witness ==
    /\ Len(entries) = 2
    /\ entries[1].debitAccountId = UnknownId
    /\ entries[1].creditAccountId \in ChartIds(accounts)
    /\ Len(filteredEntries(entries, 2, 0)) = 1
    /\ Len(filteredEntries(entries, 0, 1)) = 1
    /\ totals(balanceData(filteredEntries(entries, 0, 1), balances, accounts, FALSE)).debitTotal > 0


\* the sum of the amounts of the entries that debit (side = 1) or credit
\* (side = -1) the account
EntrySum(fe, id, side) ==
    SeqSum([i \in 1..Len(fe) |->
        IF (IF side = 1 THEN fe[i].debitAccountId ELSE fe[i].creditAccountId) = id
        THEN fe[i].amount ELSE 0])

\* C17: for every account id that a date-filtered entry references and the
\* chart does not hold, the trial balance has exactly one row, whose
\* debitTotal and creditTotal are the sums of the amounts of the filtered
\* entries that debit and credit the id, with no opening balance in them;
\* the id is in the missing-account warning set; the report is produced.
C17_SyntheticRowEntryTotalsOnly ==
    \A startDate \in FilterDates, endDate \in FilterDates, includeOpeningBalance \in BOOLEAN :
        LET fe == filteredEntries(entries, startDate, endDate)
            rows == balanceData(fe, balances, accounts, includeOpeningBalance)
        IN  \A id \in EntryIds(fe) \ ChartIds(accounts) :
                /\ id \in Range(missingAccountIds(fe, accounts))
                /\ Cardinality({j \in 1..Len(rows) : rows[j].accountId = id}) = 1
                /\ \A j \in 1..Len(rows) :
                      rows[j].accountId = id =>
                          /\ rows[j].debitTotal = EntrySum(fe, id, 1)
                          /\ rows[j].creditTotal = EntrySum(fe, id, -1)

(***************************************************************************)
(* Claims about the financial statements, the cash flow and the closing.   *)
(***************************************************************************)
\* the opening balances sit on balance-sheet accounts of the chart and sum to 0
OpeningsBalancedOnChart(obs, accs) ==
    /\ \A i \in 1..Len(obs) :
          getAccountType(accs, obs[i].accountId) \in {"asset", "liability", "equity"}
    /\ SeqSum([i \in 1..Len(obs) |-> obs[i].amount]) = 0

balanceSheetOf(fe, obs, accs, includeOpeningBalance) ==
    LET ab == accountBalances(fe, obs, accs, includeOpeningBalance)
    IN  bsData(ab, plData(ab).netIncome)

\* C3: for date-filtered entries that reference only accounts of the chart,
\* with the opening balances excluded, or on balance-sheet accounts of the
\* chart and summing to zero, totalAssets equals totalLiabilities plus the
\* equity total with the net income added.
C3_BalanceSheetBalanced ==
    \A s \in FilterDates, e \in FilterDates, inc \in BOOLEAN :
        LET fe == filteredEntries(entries, s, e)
            bs == balanceSheetOf(fe, balances, accounts, inc)
        IN  (/\ EntryIds(fe) \subseteq ChartIds(accounts)
             /\ (inc => OpeningsBalancedOnChart(balances, accounts)))
            => bs.totalAssets = bs.totalLiabilities + bs.totalEquity

\* opening balances on cash and on an equity account, an expense of the period:
\* the assets equal the equity plus a negative net income
C3_Witness ==
    /\ Len(balances) = 2
    /\ OpeningsBalancedOnChart(balances, accounts)
    /\ Len(entries) = 2
    /\ EntryIds(entries) \subseteq ChartIds(accounts)
    /\ LET bs == balanceSheetOf(entries, balances, accounts, TRUE)
       IN  bs.totalAssets > 0 /\ bs.netIncome < 0 /\ bs.totalLiabilities = 0

\* C4: totalCashFlow equals endingCash - beginningCash and the sum of the
\* operating, investing and financing subtotals, for all entries, date
\* filters and opening balances.
C4_CashFlowReconciles ==
    \A s \in FilterDates, e \in FilterDates :
        LET cf == calculateCashFlow(filteredEntries(entries, s, e), accounts, balances)
        IN  /\ cf.totalCashFlow = cf.endingCash - cf.beginningCash
            /\ cf.totalCashFlow
                   = cf.operating.subtotal + cf.investing.subtotal + cf.financing.subtotal

\* cash moves, and a borrowing gives a financing subtotal other than 0
C4_Witness ==
    /\ Len(entries) = 2
    /\ Len(balances) > 0
    /\ LET cf == calculateCashFlow(entries, accounts, balances)
       IN  /\ cf.financing.subtotal # 0
           /\ cf.totalCashFlow # 0
           /\ cf.operating.subtotal # 0
           /\ cf.beginningCash # 0

\* the ids of the chart's accounts that the cash-flow loop puts in a bucket
BucketIds(accs, bucket) == {id \in ChartIds(accs) : cashFlowBucket(accs, id) = bucket}

\* the amounts debited less the amounts credited to the accounts by the entries
NetDebited(es, ids) ==
    SeqSum([i \in 1..Len(es) |->
        (IF es[i].debitAccountId \in ids THEN es[i].amount ELSE 0)
        - (IF es[i].creditAccountId \in ids THEN es[i].amount ELSE 0)])

\* C12 as stated: a net debit posting to the receivable, inventory or
\* fixed-asset accounts gives a negative amount on the line of the bucket, and
\* a net credit posting to the payable, borrowing or capital accounts gives a
\* positive amount on the line of the bucket.
C12_CashFlowSigns ==
    \A s \in FilterDates, e \in FilterDates :
        LET fe == filteredEntries(entries, s, e)
            cf == calculateCashFlow(fe, accounts, balances)
            increase(bucket) == NetDebited(fe, BucketIds(accounts, bucket))
        IN  /\ (increase("receivable") > 0 => cf.operating.accountsReceivableChange < 0)
            /\ (increase("inventory") > 0 => cf.operating.inventoryChange < 0)
            /\ (increase("fixedAsset") > 0 => cf.investing.fixedAssetPurchase < 0)
            /\ (increase("payable") < 0 => cf.operating.accountsPayableChange > 0)
            /\ (increase("borrowing") < 0 => cf.financing.borrowing > 0)
            /\ (increase("capital") < 0 => cf.financing.capitalIncrease > 0)

\* C13 as stated: when every entry debits and credits a cash, revenue or
\* expense account of the chart, operating.subtotal = operating.netProfit,
\* investing.subtotal = 0, financing.subtotal = 0 and
\* totalCashFlow = operating.netProfit.
C13_CashOnlyOperatingIsNetProfit ==
    \A s \in FilterDates, e \in FilterDates :
        LET fe == filteredEntries(entries, s, e)
            cf == calculateCashFlow(fe, accounts, balances)
            cashRevenueExpense ==
                {id \in ChartIds(accounts) :
                    \/ isCashAccount(accounts, id)
                    \/ getAccountType(accounts, id) \in {"revenue", "expense"}}
        IN  EntryIds(fe) \subseteq cashRevenueExpense
                => /\ cf.operating.subtotal = cf.operating.netProfit
                   /\ cf.investing.subtotal = 0
                   /\ cf.financing.subtotal = 0
                   /\ cf.totalCashFlow = cf.operating.netProfit

\* C30: in every cash-flow statement the seven operating line items
\* (netProfit, depreciation, accountsReceivableChange, inventoryChange,
\* accountsPayableChange, otherCurrentAssetChange, otherCurrentLiabilityChange)
\* sum exactly to operating.subtotal.
C30_OperatingItemsSumToSubtotal ==
    \A s \in FilterDates, e \in FilterDates :
        LET op == calculateCashFlow(filteredEntries(entries, s, e), accounts, balances).operating
        IN  op.netProfit + op.depreciation + op.accountsReceivableChange + op.inventoryChange
            + op.accountsPayableChange + op.otherCurrentAssetChange
            + op.otherCurrentLiabilityChange = op.subtotal

\* a statement whose other-current-liability line carries a gap: the chart
\* has no account of that bucket, and the line is not 0
C30_Witness ==
    /\ BucketIds(accounts, "otherCurrentLiability") = {}
    /\ Len(balances) > 0
    /\ LET op == calculateCashFlow(entries, accounts, balances).operating
       IN  op.otherCurrentLiabilityChange # 0 /\ op.netProfit # 0 /\ op.subtotal # 0

\* the raw-signed balance: signed opening amount, plus the amounts debited,
\* less the amounts credited to the account by the entries of the window
RawBalance(es, obs, fyStart, fyEnd, id) ==
    SeqSum([i \in 1..Len(obs) |-> IF obs[i].accountId = id THEN obs[i].amount ELSE 0])
    + SeqSum([i \in 1..Len(es) |->
          IF es[i].date >= fyStart /\ es[i].date <= fyEnd
          THEN (IF es[i].debitAccountId = id THEN es[i].amount ELSE 0)
               - (IF es[i].creditAccountId = id THEN es[i].amount ELSE 0)
          ELSE 0])

\* C5 as stated: carryForwardBalances holds exactly one record for each
\* asset, liability or equity account of the chart whose period-end balance is
\* not 0, none for another account, and the amount of a record is the
\* raw-signed balance of the account, that of the retained-earnings account
\* reduced by netProfit.
C5_CarryForwardIsRawBalance ==
    \A fs \in Dates, fe \in Dates :
        LET r == calculateYearEndClosing(entries, accounts, balances, fs, fe)
            re == findRetainedEarningsAccount(accounts)
            expected(id) == RawBalance(entries, balances, fs, fe, id)
                            - (IF id = re THEN r.netProfit ELSE 0)
            cf == r.carryForwardBalances
        IN  /\ \A i \in 1..Len(accounts) :
                  LET id == accounts[i].id
                      n == Cardinality({j \in 1..Len(cf) : cf[j].accountId = id})
                  IN  IF isBalanceSheetAccount(accounts[i].type) /\ expected(id) # 0
                      THEN n = 1 /\ \A j \in 1..Len(cf) :
                                        cf[j].accountId = id => cf[j].amount = expected(id)
                      ELSE n = 0
            /\ \A j \in 1..Len(cf) : cf[j].accountId \in ChartIds(accounts)

\* C6: a trial balance with carryForwardBalances as the opening balances and
\* no entries has, for every account of closingBalances, one row whose
\* debitTotal - creditTotal is the closing balance, and no other row.
C6_CarryForwardContinuity ==
    \A fs \in Dates, fe \in Dates :
        LET r == calculateYearEndClosing(entries, accounts, balances, fs, fe)
            rows == balanceData(<< >>, r.carryForwardBalances, accounts, TRUE)
            cb == r.closingBalances
        IN  /\ Len(rows) = Len(cb)
            /\ \A i \in 1..Len(cb) :
                  Cardinality({j \in 1..Len(rows) :
                      /\ rows[j].accountId = cb[i].accountId
                      /\ rows[j].debitTotal - rows[j].creditTotal = cb[i].balance}) = 1
            /\ \A j \in 1..Len(rows) : \E i \in 1..Len(cb) : cb[i].accountId = rows[j].accountId

\* a closing with a debit-side and a credit-side balance to carry forward
C6_Witness ==
    /\ Len(entries) = 2
    /\ LET cb == calculateYearEndClosing(entries, accounts, balances, 1, MaxDate).closingBalances
       IN  /\ \E i \in 1..Len(cb) : cb[i].balance < 0
           /\ \E i \in 1..Len(cb) : cb[i].balance > 1

\* the amounts credited less the amounts debited to accounts of the type,
\* over the entries dated in the window
NetCredited(es, accs, fyStart, fyEnd, type) ==
    SeqSum([i \in 1..Len(es) |->
        IF es[i].date >= fyStart /\ es[i].date <= fyEnd
        THEN (IF getAccountType(accs, es[i].creditAccountId) = type THEN es[i].amount ELSE 0)
             - (IF getAccountType(accs, es[i].debitAccountId) = type THEN es[i].amount ELSE 0)
        ELSE 0])

\* C7: netProfit of the closing equals (credits - debits to revenue accounts)
\* - (debits - credits to expense accounts) over the entries dated within
\* [fiscalYearStart, fiscalYearEnd], and equals the net income of the income
\* statement filtered to the same window.
C7_NetProfitIsNetIncome ==
    \A fs \in Dates, fe \in Dates :
        LET r == calculateYearEndClosing(entries, accounts, balances, fs, fe)
        IN  /\ r.netProfit = NetCredited(entries, accounts, fs, fe, "revenue")
                             + NetCredited(entries, accounts, fs, fe, "expense")
            /\ \A inc \in BOOLEAN :
                  r.netProfit = plData(accountBalances(filteredEntries(entries, fs, fe),
                                                       balances, accounts, inc)).netIncome

\* an entry of the window that cancels revenue or expense, one entry outside
C7_Witness ==
    /\ Len(entries) = 2
    /\ entries[1].date = 1
    /\ entries[2].date = 2
    /\ getAccountType(accounts, entries[2].debitAccountId) = "revenue"
    /\ getAccountType(accounts, entries[1].debitAccountId) = "asset"
    /\ getAccountType(accounts, entries[1].creditAccountId) = "revenue"
    /\ calculateYearEndClosing(entries, accounts, balances, 2, 2).netProfit < 0

\* the period-end balance of a balance-sheet account as the closing keeps it:
\* the opening amount, plus the entries of the window on the account's own
\* side less those on the other side
PeriodEndBalance(es, accs, obs, fyStart, fyEnd, id) ==
    LET moved == SeqSum([i \in 1..Len(es) |->
                     IF es[i].date >= fyStart /\ es[i].date <= fyEnd
                     THEN (IF es[i].debitAccountId = id THEN es[i].amount ELSE 0)
                          - (IF es[i].creditAccountId = id THEN es[i].amount ELSE 0)
                     ELSE 0])
    IN  SeqSum([i \in 1..Len(obs) |-> IF obs[i].accountId = id THEN obs[i].amount ELSE 0])
        + (IF getAccountType(accs, id) = "asset" THEN moved ELSE -moved)

C16_PreviewOnlyUntilConfirmed ==
    [][/\ entries' = entries
       /\ accounts' = accounts
       /\ (balances' # balances \/ settingsFiscalYearStart' # settingsFiscalYearStart)
              => (step = "confirm" /\ step' = "complete")
       /\ (step = "confirm" /\ step' = "complete")
              => /\ balances' = closingResult.carryForwardBalances
                 /\ settingsFiscalYearStart' = calculateFiscalYearEnd(settingsFiscalYearStart) + 1
      ]_vars

\* a carry-forward was confirmed over entries of the closed year: the stored
\* balances are those of the closing, and a second closing can follow
C16_Witness ==
    /\ step = "complete"
    /\ Len(entries) = MaxEntries
    /\ Len(balances) > 1
    /\ \E i \in 1..Len(entries) : entries[i].date < settingsFiscalYearStart
    /\ settingsFiscalYearStart <= MaxFiscalYearStart

(***************************************************************************)
(* Claims about the depreciation schedule.                                 *)
(***************************************************************************)
SumDepreciation == SeqSum([k \in 1..Len(schedules) |-> schedules[k].depreciationAmount])

\* the book value the schedule ends with
LastBookValue ==
    IF Len(schedules) = 0 THEN asset.acquisitionCost
    ELSE schedules[Len(schedules)].endingBookValue

\* a schedule that has returned, of a straight-line asset that is never disposed
StraightLineReturned ==
    /\ pc = "returned"
    /\ asset.depreciationMethod = "straight_line"
    /\ ~asset.isDisposed

\* C8 as stated: for a never-disposed straight-line asset with
\* 0 <= residualValue <= acquisitionCost and a horizon that covers the useful
\* life (the fiscal years the useful life touches: usefulLife + 1), the sum of
\* depreciationAmount over the rows plus residualValue equals acquisitionCost.
C8_SumPlusResidualIsCost ==
    (StraightLineReturned /\ numberOfYears > asset.usefulLife)
        => SumDepreciation + asset.residualValue = asset.acquisitionCost

\* C8 amended: for a never-disposed straight-line asset with
\* 0 <= residualValue <= acquisitionCost, the sum of depreciationAmount plus
\* the last endingBookValue equals acquisitionCost; every row carries
\* round((acquisitionCost - residualValue) / usefulLife * months / 12), but
\* for a last row cut to leave the book value 1; the rows go on below
\* residualValue until the book value is 1 or the horizon ends; so the sum
\* plus residualValue equals acquisitionCost exactly when the last
\* endingBookValue equals residualValue.
C8_SumPlusLastBookValueIsCost ==
    StraightLineReturned =>
        /\ SumDepreciation + LastBookValue = asset.acquisitionCost
        /\ \A k \in 1..Len(schedules) :
              \/ schedules[k].depreciationAmount
                     = (2 * (asset.acquisitionCost - asset.residualValue) * schedules[k].months
                            + 12 * asset.usefulLife) \div (24 * asset.usefulLife)
              \/ k = Len(schedules) /\ schedules[k].endingBookValue = 1
        /\ (LastBookValue > 1 => Len(schedules) = numberOfYears)
        /\ (SumDepreciation + asset.residualValue = asset.acquisitionCost
                <=> LastBookValue = asset.residualValue)

\* a schedule over the whole useful life that goes on below the residual value
C8_Witness ==
    /\ StraightLineReturned
    /\ numberOfYears > asset.usefulLife
    /\ Len(schedules) > asset.usefulLife
    /\ asset.residualValue > 1
    /\ asset.residualValue < asset.acquisitionCost
    /\ LastBookValue = 1
    /\ \E k \in 1..Len(schedules) : schedules[k].months < 12

\* C9 as stated: for a never-disposed declining-balance asset with
\* acquisitionCost >= 2, the schedule over the 50 fiscal years of the journal
\* generation ends with endingBookValue = 1.
C9_DecliningBalanceReachesOne ==
    (/\ pc = "returned"
     /\ asset.depreciationMethod = "declining_balance"
     /\ ~asset.isDisposed
     /\ asset.acquisitionCost >= 2
     /\ numberOfYears = JournalNumberOfYears)
        => (Len(schedules) > 0 /\ LastBookValue = 1)

\* C10: in every row of every schedule endingBookValue >= 1, and a row whose
\* computed year amount would leave a book value below 1 carries
\* beginningBookValue - 1.
C10_EndingBookValueAtLeastOne ==
    \A k \in 1..Len(schedules) :
        LET row == schedules[k]
        IN  /\ row.endingBookValue >= 1
            /\ (row.beginningBookValue - yearAmount(asset, row.beginningBookValue, row.months) < 1
                   => row.depreciationAmount = row.beginningBookValue - 1)

\* a straight-line row whose computed amount is more than the book value less 1
C10_Witness ==
    \E k \in 1..Len(schedules) :
        LET row == schedules[k]
        IN  /\ asset.depreciationMethod = "straight_line"
            /\ yearAmount(asset, row.beginningBookValue, row.months) > row.beginningBookValue
            /\ row.depreciationAmount = row.beginningBookValue - 1
            /\ row.endingBookValue = 1

\* C29: a returned schedule is a well-formed chain.  The first row begins
\* with acquisitionCost; in each row endingBookValue = beginningBookValue -
\* depreciationAmount and accumulatedDepreciation + endingBookValue =
\* acquisitionCost; a later row begins with the previous row's
\* endingBookValue; the fiscal years strictly increase; there are at most
\* numberOfYears rows; no row begins with a book value <= 1; no row follows
\* the fiscal year that contains the disposal date.
C29_ScheduleIsChain ==
    pc = "returned" =>
        /\ Len(schedules) <= numberOfYears
        /\ Len(schedules) > 0 => schedules[1].beginningBookValue = asset.acquisitionCost
        /\ \A k \in 1..Len(schedules) :
              LET row == schedules[k]
              IN  /\ row.endingBookValue = row.beginningBookValue - row.depreciationAmount
                  /\ row.accumulatedDepreciation + row.endingBookValue = asset.acquisitionCost
                  /\ row.beginningBookValue > 1
                  /\ hasDisposal(asset) => row.yearStartDate <= asset.disposalDate
                  /\ k > 1 => /\ row.beginningBookValue = schedules[k - 1].endingBookValue
                              /\ row.fiscalYear > schedules[k - 1].fiscalYear
                              /\ hasDisposal(asset) =>
                                     schedules[k - 1].yearEndDate < asset.disposalDate

\* a schedule cut by a disposal in its second fiscal year, with book value
\* left to depreciate and years left in the horizon
C29_Witness ==
    /\ pc = "returned"
    /\ Len(schedules) = 2
    /\ hasDisposal(asset)
    /\ schedules[2].endingBookValue > 1
    /\ schedules[2].depreciationAmount > 0
    /\ schedules[2].yearStartDate <= asset.disposalDate

\* the guarantee test of a fiscal year that begins with the book value
BelowGuarantee(a, bookValue) ==
    bookValue * getDecliningBalanceRate(a.usefulLife) * 100
        < a.acquisitionCost * getGuaranteeRate(a.usefulLife)

\* the declining-balance amount of a year at the normal or the revised rate
AmountAtRate(a, bookValue, months, switched) ==
    LET annualRate == IF switched THEN getRevisedRate(a.usefulLife)
                      ELSE getDecliningBalanceRate(a.usefulLife)
        monthlyDepreciation == RoundDiv(bookValue * annualRate * months, 12000)
    IN  IF bookValue - monthlyDepreciation < 1 THEN bookValue - 1 ELSE monthlyDepreciation

\* C28: in a declining-balance schedule, once the guarantee test
\* (beginningBookValue x rate < acquisitionCost x guaranteeRate) holds in a
\* fiscal year it holds in every later one, and every row carries the amount
\* of a schedule that switches to the revised rate once and for all in the
\* first year the test holds.
C28_GuaranteeSwitchIsPermanent ==
    asset.depreciationMethod = "declining_balance" =>
        \A k \in 1..Len(schedules) :
            LET row == schedules[k]
                switched == \E j \in 1..k : BelowGuarantee(asset, schedules[j].beginningBookValue)
            IN  /\ switched => BelowGuarantee(asset, row.beginningBookValue)
                /\ row.depreciationAmount
                       = AmountAtRate(asset, row.beginningBookValue, row.months, switched)

\* a schedule that passes the test in a year after the first and has two
\* more rows after the switch
C28_Witness ==
    /\ asset.depreciationMethod = "declining_balance"
    /\ \E k \in 2..Len(schedules) :
          /\ ~BelowGuarantee(asset, schedules[k - 1].beginningBookValue)
          /\ BelowGuarantee(asset, schedules[k].beginningBookValue)
          /\ Len(schedules) >= k + 2
          /\ schedules[k + 2].depreciationAmount > 0

\* the fiscal years around the acquisition that C27 looks at
NearbyFiscalYears == (asset.acquisitionYear - 2)..(asset.acquisitionYear + 2)

\* C27: for a non-disposed asset and a fiscal year [yearStart, yearEnd] the
\* depreciable month count is 0 if the asset is acquired after yearEnd, 12 if
\* it is acquired before yearStart, and otherwise the number of months from
\* the month after the acquisition month through the month of yearEnd (0 when
\* acquired in the last month); it lies in 0..12, and the rows of the
\* schedule carry it.  Cost 120000, residual 1, useful life 5, straight-line
\* and 6 months give 12000.
C27_DepreciationMonths ==
    /\ calculateStraightLineDepreciation(120000, 1, 5, 6) = 12000
    /\ (pc # "idle" /\ ~asset.isDisposed) =>
          LET acq == MonthOf(asset.acquisitionYear, asset.acquisitionMonth)
              monthsOf(yearStart) ==
                  getDepreciationMonths(acq, yearStart, yearStart + 11, FALSE, 0)
              expected(yearStart) ==
                  IF acq > yearStart + 11 THEN 0
                  ELSE IF acq < yearStart THEN 12
                  ELSE Cardinality({m \in yearStart..(yearStart + 11) : m > acq})
          IN  /\ \A y \in NearbyFiscalYears :
                    /\ monthsOf(MonthOf(y, fyStartMonth)) = expected(MonthOf(y, fyStartMonth))
                    /\ monthsOf(MonthOf(y, fyStartMonth)) \in 0..12
              /\ \A k \in 1..Len(schedules) :
                    schedules[k].months = expected(schedules[k].yearStartDate)

\* a schedule of a non-disposed asset acquired in the last month of a fiscal
\* year: no month in the first row, twelve in the second
C27_Witness ==
    /\ pc = "returned"
    /\ ~asset.isDisposed
    /\ Len(schedules) > 1
    /\ schedules[1].months = 0
    /\ schedules[2].months = 12
    /\ \E y \in NearbyFiscalYears :
          MonthOf(asset.acquisitionYear, asset.acquisitionMonth) > MonthOf(y, fyStartMonth) + 11

(***************************************************************************)
(* Claims about the depreciation journals.                                 *)
(***************************************************************************)
HasDepreciationAccounts(accs) ==
    /\ Len(findAccountByName(accs, "GenkaShokyakuhi")) > 0
    /\ Len(findAccountByName(accs, "GenkaShokyakuRuikeigaku")) > 0

\* the rows for the fiscal year in the 50-year schedule of the asset
RowsOfYear(a, fiscalYearStart) ==
    LET rows == calculateDepreciationSchedule(a, fiscalYearStart, JournalNumberOfYears)
    IN  {rows[k] : k \in {k \in 1..Len(rows) : rows[k].fiscalYear = YearOf(fiscalYearStart)}}

\* the positions of the assets that are not disposed and have a row for the
\* fiscal year with an amount other than 0, in the order of the list
DepreciatedAssets ==
    LET positions == [j \in 1..Len(fixedAssets) |-> j]
    IN  SelectSeq(positions, LAMBDA j :
            /\ ~fixedAssets[j].isDisposed
            /\ \E row \in RowsOfYear(fixedAssets[j], settingsFiscalYearStart) :
                  row.depreciationAmount # 0)

\* C14: with both accounts in the chart, generateDepreciationJournals emits
\* one entry for each asset that is not disposed and has a row for the target
\* fiscal year with an amount other than 0, and no other entry; the entry
\* debits the depreciation-expense account, credits the
\* accumulated-depreciation account, carries the amount of that row and the
\* end date of its year; totalAmount is the sum of the amounts and assetCount
\* the number of entries.
C14_OneJournalPerDepreciatedAsset ==
    HasDepreciationAccounts(accounts) =>
        LET r == journalResult
            q == DepreciatedAssets
        IN  /\ Len(r.entries) = Len(q)
            /\ \A k \in 1..Len(r.entries) :
                  /\ getAccountName(accounts, r.entries[k].debitAccountId) = "GenkaShokyakuhi"
                  /\ getAccountName(accounts, r.entries[k].creditAccountId)
                         = "GenkaShokyakuRuikeigaku"
                  /\ k <= Len(q)
                  /\ \E row \in RowsOfYear(fixedAssets[q[k]], settingsFiscalYearStart) :
                        /\ r.entries[k].amount = row.depreciationAmount
                        /\ r.entries[k].date = row.yearEndDate
            /\ r.totalAmount = SeqSum([k \in 1..Len(r.entries) |-> r.entries[k].amount])
            /\ r.assetCount = Len(r.entries)
            /\ r.errors = << >>

\* two assets, one disposed in a later year than the target year, and the one
\* entry of the other posted
C14_Witness ==
    /\ HasDepreciationAccounts(accounts)
    /\ journalMessage = "success"
    /\ Len(fixedAssets) = 2
    /\ fixedAssets[1].isDisposed
    /\ \E row \in RowsOfYear(fixedAssets[1], settingsFiscalYearStart) : row.depreciationAmount > 0
    /\ entries = journalResult.entries
    /\ Len(entries) = 1
    /\ entries[1].amount > 1

existingDepreciationJournals ==
    LET expense == findAccountByName(accounts, "GenkaShokyakuhi")
    IN  IF Len(expense) = 0 THEN << >>
        ELSE SelectSeq(entries, LAMBDA e :
                 /\ e.debitAccountId = expense[1].id
                 /\ e.date >= settingsFiscalYearStart
                 /\ e.date <= settingsFiscalYearStart + 11)

\* C22: depreciation postings are never duplicated by the fixed-asset
\* ledger: after any sequence of registrations, disposals and 'generate
\* depreciation journals' actions for one fiscal year, the journal holds at
\* most one depreciation entry of that fiscal year per registered asset.
C22_NoDuplicateDepreciationPosting ==
    Len(existingDepreciationJournals) <= Len(fixedAssets)

(***************************************************************************)
(* Claims about the stored journal entries.                                *)
(***************************************************************************)
\* C19: after any sequence of journal form submissions, entry updates,
\* backup restores and depreciation-journal postings, every entry of the
\* journal store has amount > 0.
C19_StoredAmountsPositive ==
    \A i \in 1..Len(entries) : entries[i].amount > 0

(***************************************************************************)
(* Claims about the consumption tax.                                       *)
(***************************************************************************)
\* C11: for an integer amount >= 0 and a rate of 0, 8 or 10, the tax-included
\* calculation returns totalAmount = amount, the tax-excluded one returns
\* baseAmount = amount, and in both baseAmount + taxAmount = totalAmount.
C11_TaxRoundTrip ==
    (/\ taxCalc.kind = "result"
     /\ taxInput.amount >= 0
     /\ taxInput.taxRate \in TaxRates)
        => /\ (taxInput.taxIncluded = "included" => taxCalc.totalAmount = taxInput.amount)
           /\ (taxInput.taxIncluded = "excluded" => taxCalc.baseAmount = taxInput.amount)
           /\ taxCalc.baseAmount + taxCalc.taxAmount = taxCalc.totalAmount

\* a tax-included amount whose base amount is not the amount, at the rate 10
C11_Witness ==
    /\ taxCalc.kind = "result"
    /\ taxInput = [amount |-> 110, taxRate |-> 10, taxIncluded |-> "included"]
    /\ taxCalc.totalAmount = 110
    /\ taxCalc.baseAmount + taxCalc.taxAmount = 110
    /\ taxCalc.taxAmount > 0

\* C20 as stated: for an amount <= 0 or a rate other than 0, 8 and 10,
\* calculateTax returns no base / tax / total amounts but a validation error.
C20_MalformedTaxInputRefused ==
    (/\ taxCalc.kind # "none"
     /\ (taxInput.amount <= 0 \/ taxInput.taxRate \notin TaxRates))
        => taxCalc.kind = "error"

(***************************************************************************)
(* Financial indicators of the dashboard (financialIndicators.ts).  A      *)
(* ratio is null or the pair of its numerator and its denominator; the     *)
(* percentages carry the factor 100 in the numerator.  isReceivable is     *)
(* the same test of the name as the cash-flow statement's.                 *)
(*   Shiire = 仕入, UriageGenka = 売上原価, Kaikakekin = 買掛金,           *)
(*   Urikakekin = 売掛金                                                   *)
(***************************************************************************)
\* name === '仕入' || name.includes('売上原価')
isCostOfSales(accs, id) == getAccountName(accs, id) \in {"Shiire", "UriageGenka"}

\* 現金, 普通預金, 当座預金, 売掛金, 商品, 受取手形, 有価証券, 前払
isCurrentAsset(accs, id) ==
    getAccountName(accs, id) \in {"Genkin", "FutsuYokin", "TozaYokin", "Urikakekin", "Shohin",
                                  "UketoriTegata", "YukaShoken", "MaebaraiHiyo"}

\* 買掛金, 未払, 前受, 短期借入, 支払手形, 仮受
isCurrentLiability(accs, id) ==
    getAccountName(accs, id) \in {"Kaikakekin", "Miharaikin", "Maeukekin", "TankiKariirekin",
                                  "ShiharaiTegata", "Kariukekin"}

NullRatio == [isNull |-> TRUE]

\* a ratio whose denominator is not above zero is left out
ratioUnlessNegative(numerator, denominator) ==
    IF denominator >= 0
    THEN [isNull |-> FALSE, numerator |-> numerator, denominator |-> denominator]
    ELSE NullRatio

\* denominator > 0 ? numerator / denominator : null
ratio(numerator, denominator) ==
    IF denominator > 0
    THEN [isNull |-> FALSE, numerator |-> numerator, denominator |-> denominator]
    ELSE NullRatio

calculateFinancialIndicators(es, accs, obs) ==
    LET \* balances.set(ob.accountId, ob.amount): a later row replaces an earlier one
        opening[i \in 0..Len(obs)] ==
            IF i = 0 THEN [id \in AllIds |-> 0]
            ELSE [opening[i - 1] EXCEPT ![obs[i].accountId] = obs[i].amount]
        start == [revenue |-> 0, costOfSales |-> 0, operatingExpenses |-> 0,
                  balances |-> opening[Len(obs)]]
        \* the signed amount a side of an entry adds to the balance of its account
        debitOf(type, amount) ==
            IF type = "asset" THEN amount
            ELSE IF type \in {"liability", "equity"} THEN -amount ELSE 0
        creditOf(type, amount) ==
            IF type = "asset" THEN -amount
            ELSE IF type \in {"liability", "equity"} THEN amount ELSE 0
        post(st, entry) ==
            LET debitType == getAccountType(accs, entry.debitAccountId)
                creditType == getAccountType(accs, entry.creditAccountId)
                afterDebit == [st.balances EXCEPT ![entry.debitAccountId] =
                                   @ + debitOf(debitType, entry.amount)]
            IN  [revenue |-> st.revenue + (IF creditType = "revenue" THEN entry.amount ELSE 0),
                 costOfSales |-> st.costOfSales +
                     (IF debitType = "expense" /\ isCostOfSales(accs, entry.debitAccountId)
                      THEN entry.amount ELSE 0),
                 operatingExpenses |-> st.operatingExpenses +
                     (IF debitType = "expense" /\ ~isCostOfSales(accs, entry.debitAccountId)
                      THEN entry.amount ELSE 0),
                 balances |-> [afterDebit EXCEPT ![entry.creditAccountId] =
                                   @ + creditOf(creditType, entry.amount)]]
        posted[i \in 0..Len(es)] == IF i = 0 THEN start ELSE post(posted[i - 1], es[i])
        final == posted[Len(es)]
        \* balances.forEach: the accounts of one type that pass a test
        total(type, Test(_)) ==
            LET rows == SelectSeq(accs, LAMBDA a : a.type = type /\ Test(a.id))
            IN  SeqSum([i \in 1..Len(rows) |-> final.balances[rows[i].id]])
        any(id) == TRUE
        totalAssets == total("asset", any)
        currentAssets == total("asset", LAMBDA id : isCurrentAsset(accs, id))
        receivables == total("asset", LAMBDA id : isReceivable(accs, id))
        \* totalLiabilities -= balance, equity -= balance
        totalLiabilities == -total("liability", any)
        currentLiabilities == -total("liability", LAMBDA id : isCurrentLiability(accs, id))
        equity == -total("equity", any)
        revenue == final.revenue
        grossProfit == revenue - final.costOfSales
        operatingProfit == grossProfit - final.operatingExpenses
        netProfit == operatingProfit
    IN  [grossProfitMargin |-> ratio(grossProfit * 100, revenue),
         operatingProfitMargin |-> ratio(operatingProfit * 100, revenue),
         netProfitMargin |-> ratio(netProfit * 100, revenue),
         currentRatio |-> ratio(currentAssets * 100, currentLiabilities),
         equityRatio |-> ratio(equity * 100, totalAssets),
         debtEquityRatio |-> ratio(totalLiabilities * 100, equity),
         totalAssetTurnover |-> ratio(revenue, totalAssets),
         receivablesTurnover |-> ratio(revenue, receivables),
         revenue |-> revenue, costOfSales |-> final.costOfSales, grossProfit |-> grossProfit,
         operatingExpenses |-> final.operatingExpenses, operatingProfit |-> operatingProfit,
         netProfit |-> netProfit, totalAssets |-> totalAssets,
         totalLiabilities |-> totalLiabilities, equity |-> equity,
         currentAssets |-> currentAssets, currentLiabilities |-> currentLiabilities,
         receivables |-> receivables]

\* the chart as it is, and the chart with its asset held as a receivable and
\* its liability as a trade payable: the same ids and types, other names
IndicatorCharts(accs) ==
    { accs,
      [i \in 1..Len(accs) |->
          IF accs[i].type = "asset" THEN [accs[i] EXCEPT !.name = "Urikakekin"]
          ELSE IF accs[i].type = "liability" THEN [accs[i] EXCEPT !.name = "Kaikakekin"]
          ELSE accs[i]] }

RatioNames ==
    {"grossProfitMargin", "operatingProfitMargin", "netProfitMargin", "currentRatio",
     "equityRatio", "debtEquityRatio", "totalAssetTurnover", "receivablesTurnover"}

\* C21: the three profit margins are null if revenue is 0, currentRatio if
\* currentLiabilities is 0, debtEquityRatio if equity <= 0, receivablesTurnover
\* if receivables is 0; no ratio is computed with a zero denominator.
C21_NullRatios ==
    \A accs \in IndicatorCharts(accounts) :
        LET fi == calculateFinancialIndicators(entries, accs, balances)
        IN  /\ fi.revenue = 0 =>
                /\ fi.grossProfitMargin = NullRatio
                /\ fi.operatingProfitMargin = NullRatio
                /\ fi.netProfitMargin = NullRatio
            /\ fi.currentLiabilities = 0 => fi.currentRatio = NullRatio
            /\ fi.equity <= 0 => fi.debtEquityRatio = NullRatio
            /\ fi.receivables = 0 => fi.receivablesTurnover = NullRatio
            /\ \A r \in RatioNames : ~fi[r].isNull => fi[r].denominator # 0

\* sales on credit and the receivable taken back: a revenue, so margins, and
\* receivables of 0, so no receivables turnover
C21_Witness ==
    \E accs \in IndicatorCharts(accounts) :
        LET fi == calculateFinancialIndicators(entries, accs, balances)
        IN  /\ fi.revenue > 0
            /\ ~fi.netProfitMargin.isNull
            /\ fi.currentLiabilities = 0 /\ fi.currentRatio = NullRatio
            /\ fi.equity <= 0 /\ fi.debtEquityRatio = NullRatio
            /\ fi.receivables = 0 /\ fi.receivablesTurnover = NullRatio
            /\ fi.totalAssets = 0 /\ fi.totalAssetTurnover = NullRatio
            /\ \E i \in 1..Len(entries) : isReceivable(accs, entries[i].debitAccountId)

\* C24 as stated: for entries that reference only accounts of the chart and
\* opening balances on asset, liability and equity accounts of the chart, the
\* indicators' totalAssets, totalLiabilities and equity equal the balance
\* sheet's asset total, liability total and equity total before the net income
\* is added, computed from the same entries and opening balances.
C24_IndicatorTotalsAreBalanceSheetTotals ==
    (/\ EntryIds(entries) \subseteq ChartIds(accounts)
     /\ \A i \in 1..Len(balances) :
           getAccountType(accounts, balances[i].accountId) \in {"asset", "liability", "equity"})
        => LET fi == calculateFinancialIndicators(entries, accounts, balances)
               bs == bsDataWithoutNetIncome(accountBalances(entries, balances, accounts, TRUE), 0)
           IN  /\ fi.totalAssets = bs.totalAssets
               /\ fi.totalLiabilities = bs.totalLiabilities
               /\ fi.equity = bs.totalEquity

(***************************************************************************)
(* The general ledger (AccountList.tsx, GeneralLedger) and the sub-account *)
(* ledger (SubAccountLedger): the entries of the selected account, sorted, *)
(* with a running balance.  Array.prototype.sort is stable.                *)
(***************************************************************************)
\* .sort((a, b) => a.date.localeCompare(b.date))
SortByDate(es) ==
    LET insert(s, r) ==
            LET k == Cardinality({j \in 1..Len(s) : s[j].date <= r.date})
            IN  SubSeq(s, 1, k) \o <<r>> \o SubSeq(s, k + 1, Len(s))
        f[i \in 0..Len(es)] == IF i = 0 THEN << >> ELSE insert(f[i - 1], es[i])
    IN  f[Len(es)]

\* .sort((a, b) => a.date.localeCompare(b.date) || a.createdAt.localeCompare(b.createdAt))
SortByDateThenCreatedAt(es) ==
    LET notAfter(a, b) == a.date < b.date \/ (a.date = b.date /\ a.createdAt <= b.createdAt)
        insert(s, r) ==
            LET k == Cardinality({j \in 1..Len(s) : notAfter(s[j], r)})
            IN  SubSeq(s, 1, k) \o <<r>> \o SubSeq(s, k + 1, Len(s))
        f[i \in 0..Len(es)] == IF i = 0 THEN << >> ELSE insert(f[i - 1], es[i])
    IN  f[Len(es)]

\* GeneralLedger.ledgerEntries: no rows for an account that is not in the chart
ledgerEntries(es, accs, selectedAccountId) ==
    IF Len(findAccount(accs, selectedAccountId)) = 0 THEN << >>
    ELSE
    LET type == getAccountType(accs, selectedAccountId)
        isDebitNormal == type = "asset" \/ type = "expense"
        relevantEntries == SortByDate(SelectSeq(es, LAMBDA e :
            e.debitAccountId = selectedAccountId \/ e.creditAccountId = selectedAccountId))
        row(entry, balance) ==
            LET isDebit == entry.debitAccountId = selectedAccountId
                debit == IF isDebit THEN entry.amount ELSE 0
                credit == IF isDebit THEN 0 ELSE entry.amount
            IN  [date |-> entry.date, debit |-> debit, credit |-> credit,
                 balance |-> IF isDebitNormal THEN balance + debit - credit
                             ELSE balance + credit - debit]
        walk[i \in 0..Len(relevantEntries)] ==
            IF i = 0 THEN << >>
            ELSE Append(walk[i - 1],
                     row(relevantEntries[i], IF i = 1 THEN 0 ELSE walk[i - 1][i - 1].balance))
    IN  walk[Len(relevantEntries)]

\* SubAccountLedger.ledgerData
ledgerData(es, accs, selectedAccountId, selectedSubAccountId, startDate, endDate) ==
    LET type == getAccountType(accs, selectedAccountId)
        isDebitNormal == type = "asset" \/ type = "expense"
        isDebitMatch(entry) ==
            /\ entry.debitAccountId = selectedAccountId
            /\ entry.debitSubAccountId = selectedSubAccountId
        isCreditMatch(entry) ==
            /\ entry.creditAccountId = selectedAccountId
            /\ entry.creditSubAccountId = selectedSubAccountId
        relevantEntries == SortByDateThenCreatedAt(SelectSeq(es, LAMBDA entry :
            /\ ~(startDate # 0 /\ entry.date < startDate)
            /\ ~(endDate # 0 /\ entry.date > endDate)
            /\ (isDebitMatch(entry) \/ isCreditMatch(entry))))
        \* the balance is kept debit-positive and shown with the sign of the account
        push(st, entry) ==
            LET debit == IF isDebitMatch(entry) THEN entry.amount ELSE 0
                credit == IF isCreditMatch(entry) THEN entry.amount ELSE 0
                balance == st.balance + debit - credit
            IN  [balance |-> balance,
                 rows |-> Append(st.rows,
                     [id |-> entry.id, date |-> entry.date, debit |-> debit, credit |-> credit,
                      balance |-> IF isDebitNormal THEN balance ELSE -balance])]
        walk[i \in 0..Len(relevantEntries)] ==
            IF i = 0 THEN [balance |-> 0, rows |-> << >>]
            ELSE push(walk[i - 1], relevantEntries[i])
    IN  walk[Len(relevantEntries)].rows

\* the stored entries with the fields the ledgers read besides: the id and the
\* creation timestamp of the position an entry was appended at, one sub-account
Stamped(es) ==
    [i \in 1..Len(es) |->
        [id |-> i, date |-> es[i].date, debitAccountId |-> es[i].debitAccountId,
         creditAccountId |-> es[i].creditAccountId, amount |-> es[i].amount,
         createdAt |-> i, debitSubAccountId |-> "sub-1", creditSubAccountId |-> "sub-1"]]

\* the storage orders of the same entries
StorageOrders(es) ==
    LET perms == {p \in [1..Len(es) -> 1..Len(es)] :
                     \A i, j \in 1..Len(es) : i # j => p[i] # p[j]}
    IN  {[i \in 1..Len(es) |-> es[p[i]]] : p \in perms}

RunningBalances(rows) == [i \in 1..Len(rows) |-> rows[i].balance]

\* C26 as stated: the general ledger and the sub-account ledger show the same
\* sequence of running balances for every storage order of the same entries.
C26_LedgersIndependentOfStorageOrder ==
    \A es \in StorageOrders(Stamped(entries)), id \in ChartIds(accounts) :
        /\ RunningBalances(ledgerEntries(es, accounts, id))
               = RunningBalances(ledgerEntries(Stamped(entries), accounts, id))
        /\ RunningBalances(ledgerData(es, accounts, id, "sub-1", 0, 0))
               = RunningBalances(ledgerData(Stamped(entries), accounts, id, "sub-1", 0, 0))

\* the balance of the last row of a ledger, 0 for no rows
FinalRunningBalance(rows) == IF Len(rows) = 0 THEN 0 ELSE rows[Len(rows)].balance

\* C25 as stated: adding an entry whose debit and credit account are the same
\* account of the chart leaves unchanged the account balances, the income
\* statement's netIncome, the closing's netProfit and carry-forward balances,
\* the cash-flow statement's netProfit, the indicators' revenue, expense and
\* profit figures and the final running balance of the general ledger.
C25_SameAccountEntryIsNoOp ==
    \A id \in ChartIds(accounts), d \in Dates, amt \in 1..MaxAmount :
        LET with == Append(entries,
                [date |-> d, debitAccountId |-> id, creditAccountId |-> id, amount |-> amt])
            ab(es) == accountBalances(es, balances, accounts, TRUE)
            closing(es) == calculateYearEndClosing(es, accounts, balances, 1, MaxDate)
            fi(es) == calculateFinancialIndicators(es, accounts, balances)
            figures(es) ==
                [r \in {"revenue", "costOfSales", "grossProfit", "operatingExpenses",
                        "operatingProfit", "netProfit"} |-> fi(es)[r]]
        IN  /\ ab(with) = ab(entries)
            /\ plData(ab(with)).netIncome = plData(ab(entries)).netIncome
            /\ closing(with).netProfit = closing(entries).netProfit
            /\ closing(with).closingBalances = closing(entries).closingBalances
            /\ calculateCashFlow(with, accounts, balances).operating.netProfit
                   = calculateCashFlow(entries, accounts, balances).operating.netProfit
            /\ figures(with) = figures(entries)
            /\ \A sel \in ChartIds(accounts) :
                   FinalRunningBalance(ledgerEntries(with, accounts, sel))
                       = FinalRunningBalance(ledgerEntries(entries, accounts, sel))

(***************************************************************************)
(* The stores with the report screens over them; no schedule is computed.  *)
(***************************************************************************)
NoTaxInput == [amount |-> 0, taxRate |-> 0, taxIncluded |-> ""]

NoAsset ==
    [acquisitionCost |-> 0, residualValue |-> 0, usefulLife |-> 0, depreciationMethod |-> "",
     acquisitionYear |-> 0, acquisitionMonth |-> 0, isDisposed |-> FALSE, disposalDate |-> 0]

Init ==
    /\ accounts \in Charts
    /\ entries = << >>
    /\ balances = << >>
    /\ asset = NoAsset
    /\ fyStartMonth = 0
    /\ numberOfYears = 0
    /\ yearIndex = 0
    /\ currentYear = 0
    /\ accumulatedDepreciation = 0
    /\ beginningBookValue = 0
    /\ schedules = << >>
    /\ pc = "idle"
    /\ settingsFiscalYearStart = 1
    /\ step = "preview"
    /\ fixedAssets = << >>
    /\ journalMessage = "none"
    /\ taxInput = NoTaxInput
    /\ taxCalc = [kind |-> "none"]

\* journalStore.addEntry
addEntry ==
    /\ Len(entries) < MaxEntries
    /\ \E d \in Dates, da \in EntryAccountIds(accounts), ca \in EntryAccountIds(accounts),
          amt \in 1..MaxAmount :
          entries' = Append(entries,
              [date |-> d, debitAccountId |-> da, creditAccountId |-> ca, amount |-> amt])
    /\ UNCHANGED <<accounts, balances, scheduleVars, otherVars>>

\* journalStore.deleteEntry: ids are unique, the entry at one position goes
deleteEntry ==
    /\ \E i \in 1..Len(entries) :
          entries' = SubSeq(entries, 1, i - 1) \o SubSeq(entries, i + 1, Len(entries))
    /\ UNCHANGED <<accounts, balances, scheduleVars, otherVars>>

\* openingBalanceStore.setBalance
setBalance(accountId, amount) ==
    LET found == {i \in 1..Len(balances) : balances[i].accountId = accountId}
        \* findIndex: the first position, 0 for none
        existingIndex == IF found = {} THEN 0 ELSE CHOOSE i \in found : \A j \in found : i <= j
    IN  IF amount = 0
        THEN IF existingIndex > 0
             THEN SubSeq(balances, 1, existingIndex - 1)
                      \o SubSeq(balances, existingIndex + 1, Len(balances))
             ELSE balances
        ELSE IF existingIndex > 0
             THEN [balances EXCEPT ![existingIndex] = [accountId |-> accountId, amount |-> amount]]
             ELSE Append(balances, [accountId |-> accountId, amount |-> amount])

\* OpeningBalanceSettings.handleBalanceChange: the screen lists the chart's
\* asset, liability and equity accounts
handleBalanceChange ==
    /\ \E i \in 1..Len(accounts), numValue \in 0..MaxOpening :
          /\ accounts[i].type \in {"asset", "liability", "equity"}
          /\ balances' = setBalance(accounts[i].id,
                 IF accounts[i].type = "asset" THEN numValue ELSE -numValue)
    /\ UNCHANGED <<accounts, entries, scheduleVars, otherVars>>

Next ==
    \/ addEntry
    \/ deleteEntry
    \/ handleBalanceChange

Spec == Init /\ [][Next]_vars

(***************************************************************************)
(* The stores with the account master screen, which deletes accounts.      *)
(***************************************************************************)
\* AccountList.handleDelete / accountStore.deleteAccount: the account goes,
\* whatever the entries and the opening balances refer to
deleteAccount ==
    /\ \E i \in 1..Len(accounts) :
          accounts' = SelectSeq(accounts, LAMBDA a : a.id # accounts[i].id)
    /\ UNCHANGED <<entries, balances, scheduleVars, otherVars>>

NextAccounts ==
    \/ addEntry
    \/ deleteEntry
    \/ handleBalanceChange
    \/ deleteAccount

SpecAccounts == Init /\ [][NextAccounts]_vars

(***************************************************************************)
(* calculateDepreciationSchedule over the assets of the model: one step    *)
(* per pass of its loop.                                                   *)
(***************************************************************************)
Costs == (1..MaxCost) \cup {100, 10000}

\* no residual value, the value of the form's default, 10% of the cost, and
\* the whole cost
Residuals(cost) == {r \in {0, 1, 2, cost \div 10, cost} : r <= cost}

Methods == {"straight_line", "declining_balance"}

AcquisitionYears == {2024}

AcquisitionMonths == {1, 3, 4, 12}

FyStartMonths == {1, 4}

\* months from the acquisition to the disposal
DisposalDelays == {0, 14}

Horizons == {DefaultNumberOfYears, DetailNumberOfYears, JournalNumberOfYears}

InitSchedule ==
    /\ accounts = defaultAccounts
    /\ entries = << >>
    /\ balances = << >>
    /\ \E c \in Costs, l \in UsefulLives, m \in Methods, y \in AcquisitionYears,
          mo \in AcquisitionMonths, d \in DisposalDelays \cup {-1} :
          \E r \in Residuals(c) :
             asset = [acquisitionCost |-> c, residualValue |-> r, usefulLife |-> l,
                      depreciationMethod |-> m, acquisitionYear |-> y,
                      acquisitionMonth |-> mo, isDisposed |-> d # -1,
                      disposalDate |-> IF d = -1 THEN 0 ELSE MonthOf(y, mo) + d]
    /\ fyStartMonth \in FyStartMonths
    /\ numberOfYears \in Horizons
    /\ yearIndex = 0
    /\ currentYear = firstFiscalYear(asset, fyStartMonth)
    /\ accumulatedDepreciation = 0
    /\ beginningBookValue = asset.acquisitionCost
    /\ schedules = << >>
    /\ pc = "loop"
    /\ settingsFiscalYearStart = 1
    /\ step = "preview"
    /\ fixedAssets = << >>
    /\ journalMessage = "none"
    /\ taxInput = NoTaxInput
    /\ taxCalc = [kind |-> "none"]

\* one pass of the loop body
scheduleYear ==
    /\ pc = "loop"
    /\ loopContinues
    /\ LET yearStart == MonthOf(currentYear, fyStartMonth)
           yearEnd == yearStart + 11
           months == getDepreciationMonths(MonthOf(asset.acquisitionYear, asset.acquisitionMonth),
                         yearStart, yearEnd, asset.isDisposed, asset.disposalDate)
           depreciationAmount ==
               secureMemorandumValue(beginningBookValue,
                   yearAmount(asset, beginningBookValue, months))
           endingBookValue == beginningBookValue - depreciationAmount
       IN  IF months = 0 /\ yearIndex > 0
           THEN /\ currentYear' = currentYear + 1
                /\ yearIndex' = yearIndex + 1
                /\ UNCHANGED <<accumulatedDepreciation, beginningBookValue, schedules, pc>>
           ELSE /\ accumulatedDepreciation' = accumulatedDepreciation + depreciationAmount
                /\ schedules' = Append(schedules,
                       [fiscalYear |-> currentYear, yearStartDate |-> yearStart,
                        yearEndDate |-> yearEnd, beginningBookValue |-> beginningBookValue,
                        depreciationAmount |-> depreciationAmount,
                        accumulatedDepreciation |-> accumulatedDepreciation + depreciationAmount,
                        endingBookValue |-> endingBookValue, months |-> months])
                /\ beginningBookValue' = endingBookValue
                /\ currentYear' = currentYear + 1
                /\ IF hasDisposal(asset) /\ asset.disposalDate <= yearEnd
                   THEN pc' = "returned" /\ yearIndex' = yearIndex
                   ELSE pc' = pc /\ yearIndex' = yearIndex + 1
    /\ UNCHANGED <<ledgerVars, otherVars, asset, fyStartMonth, numberOfYears>>

\* the loop ends: return schedules
scheduleReturn ==
    /\ pc = "loop"
    /\ ~loopContinues
    /\ pc' = "returned"
    /\ UNCHANGED <<ledgerVars, otherVars, asset, fyStartMonth, numberOfYears, yearIndex,
                   currentYear, accumulatedDepreciation, beginningBookValue, schedules>>

NextSchedule ==
    \/ scheduleYear
    \/ scheduleReturn

SpecSchedule == InitSchedule /\ [][NextSchedule]_vars

(***************************************************************************)
(* calculateTax over the amounts, rates and modes of the model.            *)
(***************************************************************************)
\* the store and screen variables at rest
LedgerAtRest == accounts = defaultAccounts /\ entries = << >> /\ balances = << >>

ScheduleAtRest ==
    /\ asset = NoAsset
    /\ fyStartMonth = 0
    /\ numberOfYears = 0
    /\ yearIndex = 0
    /\ currentYear = 0
    /\ accumulatedDepreciation = 0
    /\ beginningBookValue = 0
    /\ schedules = << >>
    /\ pc = "idle"

ClosingAtRest == settingsFiscalYearStart = 1 /\ step = "preview"

AssetsAtRest == fixedAssets = << >> /\ journalMessage = "none"

TaxAtRest == taxInput = NoTaxInput /\ taxCalc = [kind |-> "none"]

\* amounts below 1, small amounts, and amounts whose tax-included quotient is
\* rounded below an integer
TaxAmounts == (-2..MaxTaxAmount) \cup {110, 135}

\* the rates of TaxRate and one that a cast lets through
CallRates == TaxRates \cup {5}

InitTax ==
    /\ LedgerAtRest
    /\ ScheduleAtRest
    /\ ClosingAtRest
    /\ AssetsAtRest
    /\ taxInput \in [amount : TaxAmounts, taxRate : CallRates,
                     taxIncluded : {"included", "excluded"}]
    /\ taxCalc = [kind |-> "none"]

\* a call of calculateTax
callCalculateTax ==
    /\ taxCalc.kind = "none"
    /\ taxCalc' = calculateTax(taxInput.amount, taxInput.taxRate, taxInput.taxIncluded)
    /\ UNCHANGED <<ledgerVars, scheduleVars, closingVars, assetVars, taxInput>>

NextTax == callCalculateTax

SpecTax == InitTax /\ [][NextTax]_vars

(***************************************************************************)
(* The fixed-asset ledger: registration, disposal and the posting of the   *)
(* depreciation journals, over charts with and without the two accounts    *)
(* the journals use.  (The mount effect of the screen, ensureRequiredAccounts, *)
(* is left out: it adds the default accounts a chart lacks.)               *)
(***************************************************************************)
\* cash with none, one or both of the depreciation accounts
JournalCharts ==
    { <<defaultAccounts[1]>> \o SelectSeq(depreciationAccounts, LAMBDA a : a.id \in ids) :
          ids \in SUBSET {"acc-159", "acc-508"} }

\* fiscal years that start in January 2024, April 2024 and January 2025
FiscalYearStarts == {MonthOf(2024, 1), MonthOf(2024, 4), MonthOf(2025, 1)}

\* the assets the registration form of the model submits: the residual value
\* is at least 1 and may exceed the acquisition cost
FormAssets ==
    [acquisitionCost : {1, 5, 100}, residualValue : {1, 10}, usefulLife : {2},
     depreciationMethod : Methods, acquisitionYear : AcquisitionYears,
     acquisitionMonth : {1, 12}, isDisposed : {FALSE}, disposalDate : {0}]

InitJournals ==
    /\ accounts \in JournalCharts
    /\ entries = << >>
    /\ balances = << >>
    /\ ScheduleAtRest
    /\ settingsFiscalYearStart \in FiscalYearStarts
    /\ step = "preview"
    /\ AssetsAtRest
    /\ TaxAtRest

\* FixedAssetLedger.handleSubmit: addAsset
addAsset ==
    /\ Len(fixedAssets) < MaxAssets
    /\ \E a \in FormAssets : fixedAssets' = Append(fixedAssets, a)
    /\ UNCHANGED <<ledgerVars, scheduleVars, closingVars, journalMessage, taxVars>>

\* FixedAssetLedger.handleDispose: disposeAsset of an asset of the list screen
handleDispose ==
    /\ \E j \in 1..Len(fixedAssets), d \in DisposalDelays :
          /\ ~fixedAssets[j].isDisposed
          /\ fixedAssets' = [fixedAssets EXCEPT ![j] =
                 [fixedAssets[j] EXCEPT
                     !.isDisposed = TRUE,
                     !.disposalDate = MonthOf(fixedAssets[j].acquisitionYear,
                                              fixedAssets[j].acquisitionMonth) + d]]
    /\ UNCHANGED <<ledgerVars, scheduleVars, closingVars, journalMessage, taxVars>>

\* FixedAssetLedger.handleGenerateJournals; the dialog opens when there is an
\* active asset
handleGenerateJournals ==
    /\ Len(activeAssetsOf(fixedAssets)) > 0
    /\ LET result == journalResult
       IN  /\ Len(entries) + Len(result.entries) <= MaxEntries
           /\ IF Len(result.errors) > 0
              THEN journalMessage' = "error" /\ entries' = entries
              ELSE IF Len(result.entries) = 0
              THEN journalMessage' = "info" /\ entries' = entries
              ELSE journalMessage' = "success" /\ entries' = entries \o result.entries
    /\ UNCHANGED <<accounts, balances, scheduleVars, closingVars, fixedAssets, taxVars>>

NextJournals ==
    \/ addAsset
    \/ handleDispose
    \/ handleGenerateJournals

SpecJournals == InitJournals /\ [][NextJournals]_vars

(***************************************************************************)
(* The year-end closing screen over stores filled by the other screens.    *)
(***************************************************************************)
\* the entries the journal store can hold
StoredEntries(accs) ==
    LET entry == [date : Dates, debitAccountId : EntryAccountIds(accs),
                  creditAccountId : EntryAccountIds(accs), amount : 1..MaxAmount]
    IN  UNION {[1..n -> entry] : n \in 0..MaxEntries}

\* the opening balances handleBalanceChange can leave: at most one nonzero
\* record for a balance-sheet account, an asset positive, the others negative
StoredBalances(accs) ==
    LET record == {b \in [accountId : ChartIds(accs), amount : (-MaxOpening)..MaxOpening] :
                      \/ getAccountType(accs, b.accountId) = "asset" /\ b.amount > 0
                      \/ getAccountType(accs, b.accountId) \in {"liability", "equity"}
                            /\ b.amount < 0}
    IN  {bs \in UNION {[1..n -> record] : n \in 0..Len(accs)} :
            \A i \in 1..Len(bs), j \in 1..Len(bs) : i # j => bs[i].accountId # bs[j].accountId}

InitClosing ==
    /\ accounts \in Charts
    /\ entries \in StoredEntries(accounts)
    /\ balances \in StoredBalances(accounts)
    /\ settingsFiscalYearStart \in Dates
    /\ step = "preview"
    /\ ScheduleAtRest
    /\ AssetsAtRest
    /\ TaxAtRest

\* the button of the preview step, disabled while there is nothing to close
openConfirm ==
    /\ step = "preview"
    /\ Len(closingResult.closingBalances) # 0
    /\ step' = "confirm"
    /\ UNCHANGED <<ledgerVars, settingsFiscalYearStart, scheduleVars, assetVars, taxVars>>

\* the cancel button of the confirm step
cancelConfirm ==
    /\ step = "confirm"
    /\ step' = "preview"
    /\ UNCHANGED <<ledgerVars, settingsFiscalYearStart, scheduleVars, assetVars, taxVars>>

\* YearEndClosing.handleCarryForward, the execute button of the confirm step
handleCarryForward ==
    /\ step = "confirm"
    /\ settingsFiscalYearStart <= MaxFiscalYearStart
    /\ balances' = setBalances(closingResult.carryForwardBalances)
    /\ settingsFiscalYearStart' = calculateNextFiscalYearStart(settingsFiscalYearStart)
    /\ step' = "complete"
    /\ UNCHANGED <<accounts, entries, scheduleVars, assetVars, taxVars>>

\* the button of the complete step
closeComplete ==
    /\ step = "complete"
    /\ step' = "preview"
    /\ UNCHANGED <<ledgerVars, settingsFiscalYearStart, scheduleVars, assetVars, taxVars>>

NextClosing ==
    \/ openConfirm
    \/ cancelConfirm
    \/ handleCarryForward
    \/ closeComplete

SpecClosing == InitClosing /\ [][NextClosing]_vars

\* OpeningBalanceSettings.totals: the debit (positive) and the credit
\* (negative) opening balances, and whether the two sides are equal
openingTotals(obs) ==
    LET debitTotal == SeqSum([i \in 1..Len(obs) |->
                          IF obs[i].amount > 0 THEN obs[i].amount ELSE 0])
        creditTotal == SeqSum([i \in 1..Len(obs) |->
                          IF obs[i].amount > 0 THEN 0 ELSE Abs(obs[i].amount)])
    IN  [debitTotal |-> debitTotal, creditTotal |-> creditTotal,
         isBalanced |-> debitTotal = creditTotal]

\* C23 as stated: when the stored opening balances sum to zero on asset,
\* liability and equity accounts of the chart, every entry has a positive
\* amount and accounts of the chart, and the chart has a retained-earnings
\* account, the opening balances a confirmed carry-forward stores sum to zero
\* again: their debit total equals their credit total.
C23_CarryForwardKeepsOpeningsBalanced ==
    [][(/\ step = "confirm" /\ step' = "complete"
        /\ OpeningsBalancedOnChart(balances, accounts)
        /\ EntryIds(entries) \subseteq ChartIds(accounts)
        /\ \A i \in 1..Len(entries) : entries[i].amount > 0
        /\ findRetainedEarningsAccount(accounts) # "undefined")
          => /\ SeqSum([i \in 1..Len(balances') |-> balances'[i].amount]) = 0
             /\ openingTotals(balances').isBalanced]_vars

(***************************************************************************)
(* The journal store under the operations that put entries into it: the    *)
(* journal form (new entry and edit), the backup restore and the posting   *)
(* of the depreciation journals.                                           *)
(***************************************************************************)
\* the part of the chart the depreciation journals use
EntriesChart == depreciationAccounts

\* the journals of a backup file: '' (date 0) is a missing field, and the
\* amount is any number
BackupJournals ==
    [date : {0, 1}, debitAccountId : {"acc-508"}, creditAccountId : {"", "acc-159"},
     amount : {-1, 0, 1}]

\* the parsed JSON of the backup files of the model
Backups ==
    [version : {"", "1.0"},
     journals : UNION {[1..n -> BackupJournals] : n \in 0..MaxBackupJournals},
     accounts : {EntriesChart}]

\* backup.parseBackup: the version and the fields of every journal are
\* present; every amount of the model is a number, whatever its sign
parseBackup(content) ==
    IF content.version = ""
    THEN [data |-> "null", error |-> "format"]
    ELSE IF \E i \in 1..Len(content.journals) :
                \/ content.journals[i].date = 0
                \/ content.journals[i].debitAccountId = ""
                \/ content.journals[i].creditAccountId = ""
         THEN [data |-> "null", error |-> "journal format"]
         ELSE [data |-> content, error |-> "null"]

InitEntries ==
    /\ accounts = EntriesChart
    /\ entries = << >>
    /\ balances = << >>
    /\ ScheduleAtRest
    /\ settingsFiscalYearStart \in FiscalYearStarts
    /\ step = "preview"
    /\ fixedAssets \in {<< >>} \cup {<<a>> : a \in {f \in FormAssets : f.acquisitionMonth = 1}}
    /\ journalMessage = "none"
    /\ TaxAtRest

\* JournalList.handleFormSubmit with an entry under edit: updateEntry with
\* the values of the journal form
updateEntry ==
    /\ \E i \in 1..Len(entries), d \in Dates, da \in EntryAccountIds(accounts),
          ca \in EntryAccountIds(accounts), amt \in 1..MaxAmount :
          entries' = [entries EXCEPT ![i] =
              [date |-> d, debitAccountId |-> da, creditAccountId |-> ca, amount |-> amt]]
    /\ UNCHANGED <<accounts, balances, scheduleVars, otherVars>>

\* BackupRestore.handleRestore: a file that parseBackup accepts replaces the
\* entries and the chart
handleRestore ==
    /\ \E content \in Backups :
          LET parsed == parseBackup(content)
          IN  /\ parsed.error = "null"
              /\ entries' = parsed.data.journals
              /\ accounts' = parsed.data.accounts
    /\ UNCHANGED <<balances, scheduleVars, otherVars>>

NextEntries ==
    \/ addEntry
    \/ updateEntry
    \/ handleRestore
    \/ handleGenerateJournals

SpecEntries == InitEntries /\ [][NextEntries]_vars

====
